---------------------------- MODULE Spec2Model ----------------------------
(***************************************************************************)
(* Worklog AI: the prompt / provider / response / PR-template pipeline of  *)
(* the VS Code extension, and the commands that drive it.                  *)
(*                                                                         *)
(* Texts are sequences of one-character strings, so that substring, trim,  *)
(* split and the regular-expression replacements of the source are         *)
(* computed character by character.                                        *)
(***************************************************************************)
EXTENDS Integers, Sequences, FiniteSets, TLC

VARIABLES
    \* ---- prompt builders (createPrompt, createWorklogPrompt, createCommitMessagePrompt)
    changes,        \* the change text handed to the builder / obtained from the diff source
    worklogStyle,   \* the style selector
    builder,        \* which builder is applied
    prompt,         \* the built prompt: [head, payload, tail], or NoPrompt
    ppc,            \* "idle" | "ready" | "built"
    \* ---- response parser of generateCommitMessage
    response,       \* the raw text the provider client returned
    commitResult,   \* { message, description }
    cpc,            \* "idle" | "ready" | "parsed" | "threw"
    template,       \* template.content handed to the filler
    filler,         \* "fillPRTemplate" | "fillPRTemplateFromCommits"
    commitMessages, \* the commit messages passed on, or null
    templatePrompt, \* what fillTemplateWithAI embeds in its prompt
    templateReply,  \* the text the provider client returned
    filled,         \* the text the filler returned
    tpc,            \* "idle" | "ready" | "awaiting" | "cleaned" | "fellBack"
    settings,       \* the worklogGenerator configuration section
    llmProvider,    \* WorklogTreeDataProvider.llmProvider
    isGenerating,   \* WorklogTreeDataProvider.isGenerating
    entry,          \* the command under way, or "none"
    gpc,            \* "idle" | "awaitWorklog" | "awaitCommitMessage" | "awaitTemplate" | "done"
                    \* | "answered"
    call,           \* the arguments of the generator call under way
    emptySource,    \* whether the diff source gave only empty or white-space text
    httpLog,        \* the HTTP requests issued, in order
    replies,        \* the answers the clients handled, in order
    warnLog,        \* the console.warn lines, in order
    signal,         \* what the command told the user
    lastError,      \* the error the command caught
    generated,      \* the text the command obtained
    edits,          \* how often the settings were edited while a command waited
    generatedWorklog, \* WorklogTreeDataProvider.generatedWorklog
    workspaceState, \* context.workspaceState, key "lastGeneratedWorklog"
    panel,          \* what WorklogPanel.currentPanel shows
    \* ---- a second command, started while the first one waits
    other,          \* the context of the command that is not running now
    \* ---- WorklogPanel.formatWorklogContent
    htmlContent,    \* the rendered reply handed to formatWorklogContent
    formatted,      \* what it returned: the two sections, or the content as it is
    fpc,             \* "idle" | "ready" | "formatted"
    \* ---- modelService: the model-listing cache
    modelCache,     \* the Map modelCache: cache key -> list of models
    fetches,        \* the calls of fetchGeminiModels / fetchOpenAIModels, by number
    netLog,         \* the network requests of the model listing, in order
    \* ---- the success notification of a tree-view command
    deliveries,       \* what the notifications copied or exported, in order
    \* ---- the panel's "include in commit" action and gitIntegration
    includeWorklog,  \* the setting worklogGenerator.includeWorklogInCommitMessage
    lastGeneratedWorklog, \* the variable of registerGitIntegration, or Undefined
    inputBox,        \* vscode.scm.inputBox.value
    events,          \* the configuration-change events not yet handled, in order
    incl,            \* includeInCommitMessage: its position and its argument
    includeCount,      \* how often the action was invoked
    \* ---- the configuration commands and the model a template request names
    config,          \* the settings the configuration commands write
    fills,             \* the requests of the template clients, in order
    \* ---- the result panel's "Generate New" action
    contentType,     \* WorklogPanel._contentType
    dispatched       \* what executeCommand did for each "Generate New", in order

promptVars == <<changes, worklogStyle, builder, prompt, ppc>>
commitVars == <<response, commitResult, cpc>>
templateVars == <<template, filler, commitMessages, templatePrompt, templateReply, filled, tpc>>
genVars == <<settings, llmProvider, isGenerating, entry, gpc, call, emptySource,
             httpLog, replies, warnLog, signal, lastError, generated, edits,
             generatedWorklog, workspaceState, panel>>
overlapVars == <<other>>
panelVars == <<contentType, dispatched>>
configVars == <<config, fills>>
scmVars == <<includeWorklog, lastGeneratedWorklog, inputBox, events, incl, includeCount>>
notifyVars == <<deliveries>>
modelVars == <<modelCache, fetches, netLog>>
formatVars == <<htmlContent, formatted, fpc>>

vars == <<changes, worklogStyle, builder, prompt, ppc, response, commitResult, cpc,
          template, filler, commitMessages, templatePrompt, templateReply, filled, tpc,
          settings, llmProvider, isGenerating, entry, gpc, call, emptySource,
          httpLog, replies, warnLog, signal, lastError, generated, edits,
          generatedWorklog, workspaceState, panel, other,
          htmlContent, formatted, fpc,
          modelCache, fetches, netLog,
          deliveries,
          includeWorklog, lastGeneratedWorklog, inputBox, events, incl, includeCount,
          config, fills,
          contentType, dispatched>>

\* everything but the variables of the commands and of their notifications
nonCommandVars == <<promptVars, commitVars, templateVars, formatVars, modelVars, scmVars, configVars, panelVars>>

-----------------------------------------------------------------------------
(* Text helpers *)

\* n copies of the filler character "a"
Fill(n) == [i \in 1..n |-> "a"]

RECURSIVE Concat(_)
\* concatenation of a sequence of texts
Concat(ss) == IF ss = <<>> THEN <<>> ELSE Head(ss) \o Concat(Tail(ss))

\* String.prototype.substring(0, n)
Substring0(s, n) == SubSeq(s, 1, IF n < Len(s) THEN n ELSE Len(s))

\* the characters of s from 1-based position i to the end
From(s, i) == SubSeq(s, i, Len(s))


\* JavaScript white space (the characters of it that the texts here use)
IsSpace(c) == c \in {" ", "\t", "\n", "\r"}

\* the positions of s that hold something other than white space
InkPositions(s) == {i \in 1..Len(s) : ~IsSpace(s[i])}

Min(S) == CHOOSE x \in S : \A y \in S : x <= y
Max(S) == CHOOSE x \in S : \A y \in S : x >= y

TrimStart(s) == IF InkPositions(s) = {} THEN <<>> ELSE From(s, Min(InkPositions(s)))

TrimEnd(s) == IF InkPositions(s) = {} THEN <<>> ELSE SubSeq(s, 1, Max(InkPositions(s)))

\* String.prototype.trim()
Trim(s) == TrimEnd(TrimStart(s))

\* String.prototype.startsWith / endsWith
StartsWith(s, p) == Len(s) >= Len(p) /\ SubSeq(s, 1, Len(p)) = p
EndsWith(s, p) == Len(s) >= Len(p) /\ SubSeq(s, Len(s) - Len(p) + 1, Len(s)) = p

UpperLetters == <<"A", "B", "C", "D", "E", "F", "G", "H", "I", "J", "K", "L", "M",
                  "N", "O", "P", "Q", "R", "S", "T", "U", "V", "W", "X", "Y", "Z">>
LowerLetters == <<"a", "b", "c", "d", "e", "f", "g", "h", "i", "j", "k", "l", "m",
                  "n", "o", "p", "q", "r", "s", "t", "u", "v", "w", "x", "y", "z">>

\* case folding of the i flag
Lower(c) ==
    IF \E i \in 1..26 : UpperLetters[i] = c
    THEN LowerLetters[CHOOSE i \in 1..26 : UpperLetters[i] = c]
    ELSE c

LowerText(s) == [i \in 1..Len(s) |-> Lower(s[i])]

\* startsWith, ignoring case
StartsWithCI(s, p) == Len(s) >= Len(p) /\ LowerText(SubSeq(s, 1, Len(p))) = LowerText(p)

\* position of the first "\n" of s at or after i, or 0
IndexOfNewline(s, i) ==
    LET hits == {k \in i..Len(s) : s[k] = "\n"}
    IN IF hits = {} THEN 0 ELSE Min(hits)

\* String.prototype.split('\n')
RECURSIVE SplitLines(_)
SplitLines(s) ==
    LET k == IndexOfNewline(s, 1)
    IN IF k = 0 THEN <<s>> ELSE <<SubSeq(s, 1, k - 1)>> \o SplitLines(From(s, k + 1))

\* Array.prototype.join('\n')
RECURSIVE JoinLines(_)
JoinLines(ls) ==
    IF ls = <<>> THEN <<>>
    ELSE IF Len(ls) = 1 THEN ls[1]
    ELSE ls[1] \o <<"\n">> \o JoinLines(Tail(ls))

-----------------------------------------------------------------------------
(* Prompt builders *)

\* the cap on the change text embedded in a prompt
MaxChanges == 10000

\* "...[truncated]"
TruncationMarker == <<".", ".", ".", "[", "t", "r", "u", "n", "c", "a", "t", "e", "d", "]">>

\* mutant: the cap test is >= and the cut is one character short
limitedChanges_offByOne(c) ==
    IF Len(c) >= MaxChanges THEN Substring0(c, MaxChanges - 1) \o TruncationMarker ELSE c

\* changes.length > 10000 ? changes.substring(0, 10000) + "...[truncated]" : changes
limitedChanges(c) ==
    IF Len(c) > MaxChanges THEN Substring0(c, MaxChanges) \o TruncationMarker ELSE c

NoPrompt == [head |-> "", style |-> "", payload |-> <<>>, tail |-> ""]

\* The style-instruction block createPrompt / createWorklogPrompt select: the
\* vocabulary rule of each block (its first bullet) stands for the block.
IncludeNames == "- Include specific file names, function names, field names, and class names"
OmitNames == "- Do NOT include file names, function names, or technical jargon"

\* the switch with the cases "technical" and "business" exchanged
styleInstruction_swapped(b, style) ==
    CASE b = "createPrompt" /\ style = "commit-message" ->
            "Create a concise git commit message with the following requirements:"
      [] style = "technical" -> OmitNames
      [] OTHER -> IncludeNames

styleInstruction(b, style) ==
    CASE b = "createPrompt" /\ style = "commit-message" ->
            "Create a concise git commit message with the following requirements:"
      [] style = "technical" -> IncludeNames
      [] OTHER -> OmitNames

\* worklogGenerator.ts createPrompt: instructions, then the change text, then the cue
createPrompt(c, style) ==
    [head    |-> "You are a professional software developer creating a worklog entry.",
     style   |-> styleInstruction("createPrompt", style),
     payload |-> limitedChanges(c),
     tail    |-> "Generate the output now:"]

\* createWorklogPrompt of the current generator
createWorklogPrompt(c, style) ==
    [head    |-> "You are a professional software developer creating a worklog entry.",
     style   |-> styleInstruction("createWorklogPrompt", style),
     payload |-> limitedChanges(c),
     tail    |-> "Generate the worklog and DSU script now:"]

\* createCommitMessagePrompt of the current generator
createCommitMessagePrompt(c) ==
    [head    |-> "You are a professional software developer creating a commit message for code changes.",
     style   |-> "",
     payload |-> limitedChanges(c),
     tail    |-> "Generate a commit message and description now:"]


-----------------------------------------------------------------------------
(* Response parser of generateCommitMessage *)

\* the cap on the subject line, and what is kept of a longer one
MaxSubject == 100
SubjectKeep == 97
Ellipsis == <<".", ".", ".">>

\* lines[0].replace(/^(#|\*\*|__) ?/, '')
stripMarkdownPrefix(line) ==
    LET k == IF StartsWith(line, <<"#">>) THEN 1
             ELSE IF StartsWith(line, <<"*", "*">>) \/ StartsWith(line, <<"_", "_">>) THEN 2
             ELSE 0
        r == From(line, k + 1)
    IN IF k = 0 THEN line
       ELSE IF StartsWith(r, <<" ">>) THEN Tail(r) ELSE r

\* .replace(/ ?(:|\*\*|__)$/, '')
stripMarkdownSuffix(line) ==
    LET k == IF EndsWith(line, <<":">>) THEN 1
             ELSE IF EndsWith(line, <<"*", "*">>) \/ EndsWith(line, <<"_", "_">>) THEN 2
             ELSE 0
        r == SubSeq(line, 1, Len(line) - k)
    IN IF k = 0 THEN line
       ELSE IF EndsWith(r, <<" ">>) THEN SubSeq(r, 1, Len(r) - 1) ELSE r

\* the alternatives of /^(Commit Message|Message|Title|Subject): ?/i, in order
SubjectLabels ==
    << <<"C", "o", "m", "m", "i", "t", " ", "M", "e", "s", "s", "a", "g", "e">>,
       <<"M", "e", "s", "s", "a", "g", "e">>,
       <<"T", "i", "t", "l", "e">>,
       <<"S", "u", "b", "j", "e", "c", "t">> >>

\* message.replace(/^(Commit Message|Message|Title|Subject): ?/i, '')
stripLabel(m) ==
    LET hits == {i \in 1..Len(SubjectLabels) : StartsWithCI(m, SubjectLabels[i] \o <<":">>)}
    IN IF hits = {} THEN m
       ELSE LET i == CHOOSE j \in hits : \A h \in hits : j <= h
                r == From(m, Len(SubjectLabels[i]) + 2)
            IN IF StartsWith(r, <<" ">>) THEN Tail(r) ELSE r

\* the first line with its markdown and label decoration removed
strippedSubject(line) == stripLabel(stripMarkdownSuffix(stripMarkdownPrefix(line)))

\* mutant: the cut keeps 100 characters and then appends the ellipsis
capSubject_keepsCap(m) ==
    IF Len(m) > MaxSubject THEN Substring0(m, MaxSubject) \o Ellipsis ELSE m

\* if (message.length > 100) message = message.substring(0, 97) + '...'
capSubject(m) ==
    IF Len(m) > MaxSubject THEN Substring0(m, SubjectKeep) \o Ellipsis ELSE m

\* if (lines.length > 0) { message = ... }
extractMessage(lines) ==
    IF Len(lines) > 0 THEN capSubject(strippedSubject(lines[1])) ELSE <<>>

\* while (startIndex < lines.length && lines[startIndex].trim() === '') startIndex++
RECURSIVE skipEmptyLines(_, _)
skipEmptyLines(lines, i) ==
    IF i <= Len(lines) /\ Trim(lines[i]) = <<>> THEN skipEmptyLines(lines, i + 1) ELSE i

\* lines[i].startsWith('# ')
isHeaderLine(line) == StartsWith(line, <<"#", " ">>)

\* lines[i].match(/^[-=]{3,}$/)
isSeparatorLine(line) == Len(line) >= 3 /\ \A i \in 1..Len(line) : line[i] \in {"-", "="}

\* lines[i].replace(/^[-*+] /, '')
stripBullet(line) ==
    IF Len(line) >= 2 /\ line[1] \in {"-", "*", "+"} /\ line[2] = " " THEN From(line, 3) ELSE line

\* the for loop collecting descriptionLines
RECURSIVE descriptionLines(_, _)
descriptionLines(lines, i) ==
    IF i > Len(lines) THEN <<>>
    ELSE IF isHeaderLine(lines[i]) \/ isSeparatorLine(lines[i])
         THEN descriptionLines(lines, i + 1)
         ELSE <<stripBullet(lines[i])>> \o descriptionLines(lines, i + 1)

\* if (lines.length > 1) { ... description = descriptionLines.join('\n') }
extractDescription(lines) ==
    IF Len(lines) > 1 THEN JoinLines(descriptionLines(lines, skipEmptyLines(lines, 2))) ELSE <<>>

\* response.trim().split('\n')
replyLines(r) == SplitLines(Trim(r))

\* generateCommitMessage, from the provider's reply to the returned object
parseCommitReply(r) ==
    [message     |-> Trim(extractMessage(replyLines(r))),
     description |-> Trim(extractDescription(replyLines(r)))]

NoCommitResult == [message |-> <<>>, description |-> <<>>]

\* what a client returns when the first candidate of an otherwise well-formed
\* envelope has no text: candidates[0].content.parts[0].text is undefined and
\* choices[0].message.content is null.  No text has an element of this length.
Undefined == <<"undefined">>

\* response.trim() throws a TypeError on it; the catch block of
\* generateCommitMessage throws it on as "Failed to generate commit message"
parseThrows(r) == r = Undefined

\* how far below and above the subject cap the checked first lines range
CommitSlack == 3

\* what the provider puts before the subject text on the first line
ReplyLeads == {<<>>, <<"\n", " ">>}
ReplyPrefixes == {<<>>, <<"#", " ">>, <<"#", " ", " ">>, <<"*", "*">>, <<"_", "_">>}
ReplyLabels == {<<>>,
                <<"C", "o", "m", "m", "i", "t", " ", "M", "e", "s", "s", "a", "g", "e", ":", " ">>,
                <<"m", "e", "s", "s", "a", "g", "e", ":", " ", " ">>,
                <<"T", "i", "t", "l", "e", ":">>}
\* what follows it on the first line
ReplySuffixes == {<<>>, <<":">>, <<" ", "*", "*">>, <<"_", "_">>, <<" ">>}
\* the lines after the first
ReplyBodies == {<<>>,
                <<"\n", "\n", "-", " ", "b", "\n", "#", " ", "h", "\n", "-", "-", "-", "\n", "c">>,
                <<"\n", "*", " ", "b", "\n", "=", "=", "=", "=", "\n">>,
                <<"\n", "#", "#", " ", "h", "\n", "*", "*", "*", "\n", "d">>}

SubjectLengths == {0, 1} \cup ((MaxSubject - CommitSlack)..(MaxSubject + CommitSlack))

CommitReplies ==
    {Concat(<<l, p, lab, Fill(n), s, b>>) :
        l \in ReplyLeads, p \in ReplyPrefixes, lab \in ReplyLabels,
        n \in SubjectLengths, s \in ReplySuffixes, b \in ReplyBodies}

-----------------------------------------------------------------------------
(* cleanupTemplate (prTemplateService.ts) *)

\* line terminators after which ^ matches under the m flag
IsLineTerminator(c) == c \in {"\n", "\r"}

\* ^ of a multi-line regular expression at position i of s
AtLineStart(s, i) == i = 1 \/ IsLineTerminator(s[i - 1])

\* number of consecutive white-space characters of s from position i (\s*)
RECURSIVE SpaceRun(_, _)
SpaceRun(s, i) == IF i <= Len(s) /\ IsSpace(s[i]) THEN 1 + SpaceRun(s, i + 1) ELSE 0

\* number of consecutive characters c of s from position i
RECURSIVE CharRun(_, _, _)
CharRun(s, i, c) == IF i <= Len(s) /\ s[i] = c THEN 1 + CharRun(s, i + 1, c) ELSE 0

\* number of consecutive characters other than "\n" from position i ([^\n]+)
RECURSIVE LineRun(_, _)
LineRun(s, i) == IF i <= Len(s) /\ s[i] # "\n" THEN 1 + LineRun(s, i + 1) ELSE 0

\* the character U+0060, which a string literal of this module cannot hold
Backtick == "U+0060"

Fence == <<Backtick, Backtick, Backtick>>
FenceMarkdown == Fence \o <<"m", "a", "r", "k", "d", "o", "w", "n">>

\* cleaned.replace(/^```markdown\s*/i, '')
stripFenceMarkdown(s) ==
    IF StartsWithCI(s, FenceMarkdown)
    THEN From(s, Len(FenceMarkdown) + 1 + SpaceRun(s, Len(FenceMarkdown) + 1))
    ELSE s

\* cleaned.replace(/^```\s*/i, '')
stripFenceOpen(s) ==
    IF StartsWith(s, Fence) THEN From(s, 4 + SpaceRun(s, 4)) ELSE s

\* whether /\s*```\s*$/ matches s at position i
FenceCloseAt(s, i) ==
    LET j == i + SpaceRun(s, i)
    IN /\ j + 2 <= Len(s)
       /\ SubSeq(s, j, j + 2) = Fence
       /\ j + 3 + SpaceRun(s, j + 3) = Len(s) + 1

\* cleaned.replace(/\s*```\s*$/i, ''): the leftmost match is removed
stripFenceClose(s) ==
    LET hits == {i \in 1..Len(s) : FenceCloseAt(s, i)}
    IN IF hits = {} THEN s
       ELSE SubSeq(s, 1, (CHOOSE i \in hits : \A h \in hits : i <= h) - 1)

\* whether /([^\n])\n(#{1,6}\s)/ matches s at position i
HeaderBeforeAt(s, i) ==
    /\ i + 1 <= Len(s)
    /\ s[i] # "\n"
    /\ s[i + 1] = "\n"
    /\ LET r == CharRun(s, i + 2, "#")
       IN r >= 1 /\ r <= 6 /\ i + 2 + r <= Len(s) /\ IsSpace(s[i + 2 + r])

\* mutant: the replacement drops $1, the character before the line break
RECURSIVE blankBeforeHeaders_dropsChar(_, _)
blankBeforeHeaders_dropsChar(s, i) ==
    IF i > Len(s) THEN <<>>
    ELSE IF HeaderBeforeAt(s, i)
         THEN LET e == i + 2 + CharRun(s, i + 2, "#")
              IN <<"\n", "\n">> \o SubSeq(s, i + 2, e) \o blankBeforeHeaders_dropsChar(s, e + 1)
         ELSE <<s[i]>> \o blankBeforeHeaders_dropsChar(s, i + 1)

\* cleaned.replace(/([^\n])\n(#{1,6}\s)/g, '$1\n\n$2'), from position i
RECURSIVE blankBeforeHeaders(_, _)
blankBeforeHeaders(s, i) ==
    IF i > Len(s) THEN <<>>
    ELSE IF HeaderBeforeAt(s, i)
         THEN LET e == i + 2 + CharRun(s, i + 2, "#")
              IN <<s[i], "\n", "\n">> \o SubSeq(s, i + 2, e) \o blankBeforeHeaders(s, e + 1)
         ELSE <<s[i]>> \o blankBeforeHeaders(s, i + 1)

\* the end of the header line when /(#{1,6}\s[^\n]+)\n([^#\n])/ matches s at i, else 0
HeaderAfterEnd(s, i) ==
    LET r == CharRun(s, i, "#")
        p == i + r + 1
        n == LineRun(s, p)
        e == p + n - 1
    IN IF /\ r >= 1 /\ r <= 6
          /\ i + r <= Len(s) /\ IsSpace(s[i + r])
          /\ n >= 1
          /\ e + 2 <= Len(s)
          /\ s[e + 1] = "\n"
          /\ s[e + 2] \notin {"#", "\n"}
       THEN e ELSE 0

\* cleaned.replace(/(#{1,6}\s[^\n]+)\n([^#\n])/g, '$1\n\n$2'), from position i
RECURSIVE blankAfterHeaders(_, _)
blankAfterHeaders(s, i) ==
    IF i > Len(s) THEN <<>>
    ELSE LET e == HeaderAfterEnd(s, i)
         IN IF e # 0
            THEN SubSeq(s, i, e) \o <<"\n", "\n", s[e + 2]>> \o blankAfterHeaders(s, e + 3)
            ELSE <<s[i]>> \o blankAfterHeaders(s, i + 1)

\* the position of "[" when /^-\s*\[([x ])\]\s*/m matches s at i, else 0
CheckboxAt(s, i) ==
    LET j == i + 1 + SpaceRun(s, i + 1)
    IN IF /\ AtLineStart(s, i)
          /\ s[i] = "-"
          /\ j + 2 <= Len(s)
          /\ s[j] = "["
          /\ s[j + 1] \in {"x", " "}
          /\ s[j + 2] = "]"
       THEN j ELSE 0

\* mutant: the replacement writes an unchecked box whatever $1 was
RECURSIVE normaliseCheckboxes_unchecks(_, _)
normaliseCheckboxes_unchecks(s, i) ==
    IF i > Len(s) THEN <<>>
    ELSE LET j == CheckboxAt(s, i)
         IN IF j # 0
            THEN <<"-", " ", "[", " ", "]", " ">>
                    \o normaliseCheckboxes_unchecks(s, j + 3 + SpaceRun(s, j + 3))
            ELSE <<s[i]>> \o normaliseCheckboxes_unchecks(s, i + 1)

\* cleaned.replace(/^-\s*\[([x ])\]\s*/gm, '- [$1] '), from position i
RECURSIVE normaliseCheckboxes(_, _)
normaliseCheckboxes(s, i) ==
    IF i > Len(s) THEN <<>>
    ELSE LET j == CheckboxAt(s, i)
         IN IF j # 0
            THEN <<"-", " ", "[", s[j + 1], "]", " ">>
                    \o normaliseCheckboxes(s, j + 3 + SpaceRun(s, j + 3))
            ELSE <<s[i]>> \o normaliseCheckboxes(s, i + 1)

\* cleaned.replace(/^\*\s+/gm, '* '), from position i
RECURSIVE normaliseBullets(_, _)
normaliseBullets(s, i) ==
    IF i > Len(s) THEN <<>>
    ELSE IF AtLineStart(s, i) /\ s[i] = "*" /\ SpaceRun(s, i + 1) >= 1
         THEN <<"*", " ">> \o normaliseBullets(s, i + 1 + SpaceRun(s, i + 1))
         ELSE <<s[i]>> \o normaliseBullets(s, i + 1)

\* whether /([^\n*-])\n([*-]\s)/ matches s at position i
ListBeforeAt(s, i) ==
    /\ i + 3 <= Len(s)
    /\ s[i] \notin {"\n", "*", "-"}
    /\ s[i + 1] = "\n"
    /\ s[i + 2] \in {"*", "-"}
    /\ IsSpace(s[i + 3])

\* cleaned.replace(/([^\n*-])\n([*-]\s)/gm, '$1\n\n$2'), from position i
RECURSIVE blankBeforeLists(_, _)
blankBeforeLists(s, i) ==
    IF i > Len(s) THEN <<>>
    ELSE IF ListBeforeAt(s, i)
         THEN <<s[i], "\n", "\n", s[i + 2], s[i + 3]>> \o blankBeforeLists(s, i + 4)
         ELSE <<s[i]>> \o blankBeforeLists(s, i + 1)

\* mutant: a run of three or more newlines is replaced by three
RECURSIVE collapseBlankLines_toThree(_, _)
collapseBlankLines_toThree(s, i) ==
    IF i > Len(s) THEN <<>>
    ELSE LET r == CharRun(s, i, "\n")
         IN IF r >= 3
            THEN <<"\n", "\n", "\n">> \o collapseBlankLines_toThree(s, i + r)
            ELSE <<s[i]>> \o collapseBlankLines_toThree(s, i + 1)

\* cleaned.replace(/\n{3,}/g, '\n\n'), from position i
RECURSIVE collapseBlankLines(_, _)
collapseBlankLines(s, i) ==
    IF i > Len(s) THEN <<>>
    ELSE LET r == CharRun(s, i, "\n")
         IN IF r >= 3
            THEN <<"\n", "\n">> \o collapseBlankLines(s, i + r)
            ELSE <<s[i]>> \o collapseBlankLines(s, i + 1)

NotApplicable == <<"N", "/", "A">>
NoneWord == <<"N", "o", "n", "e">>

\* the length of the word when /(N\/A|None)\n([^#\n])/ matches s at i, else 0
NoneWordAt(s, i) ==
    LET L == IF StartsWith(From(s, i), NotApplicable) THEN 3
             ELSE IF StartsWith(From(s, i), NoneWord) THEN 4
             ELSE 0
    IN IF /\ L # 0
          /\ i + L + 1 <= Len(s)
          /\ s[i + L] = "\n"
          /\ s[i + L + 1] \notin {"#", "\n"}
       THEN L ELSE 0

\* cleaned.replace(/(N\/A|None)\n([^#\n])/g, '$1\n\n$2'), from position i
RECURSIVE blankAfterNone(_, _)
blankAfterNone(s, i) ==
    IF i > Len(s) THEN <<>>
    ELSE LET L == NoneWordAt(s, i)
         IN IF L # 0
            THEN SubSeq(s, i, i + L - 1) \o <<"\n", "\n", s[i + L + 1]>>
                    \o blankAfterNone(s, i + L + 2)
            ELSE <<s[i]>> \o blankAfterNone(s, i + 1)

\* cleanupTemplate: the replacements in the order of the source
cleanupTemplate(t) ==
    LET c0 == Trim(t)
        c1 == stripFenceMarkdown(c0)
        c2 == stripFenceOpen(c1)
        c3 == stripFenceClose(c2)
        c4 == blankBeforeHeaders(c3, 1)
        c5 == blankAfterHeaders(c4, 1)
        c6 == normaliseCheckboxes(c5, 1)
        c7 == normaliseBullets(c6, 1)
        c8 == blankBeforeLists(c7, 1)
        c9 == collapseBlankLines(c8, 1)
        c10 == blankAfterNone(c9, 1)
    IN Trim(c10)

-----------------------------------------------------------------------------
(* fillTemplateWithAI (prTemplateService.ts) *)

\* commitMessages: string[] | null
NullMessages == [isNull |-> TRUE, list |-> <<>>]
Messages(list) == [isNull |-> FALSE, list |-> list]

NoTemplatePrompt == [worklogContent |-> <<>>, commitMessages |-> <<>>, templateContent |-> <<>>]

\* the parts of the prompt of fillTemplateWithAI that come from its arguments
templatePromptOf(templateContent, worklogContent, messages) ==
    [worklogContent |-> worklogContent,
     commitMessages |-> IF messages.isNull THEN <<>> ELSE JoinLines(messages.list),
     templateContent |-> templateContent]

\* the worklog text the fillers are given
WorklogContent == <<"a">>

\* selectedCommits.map(c => c.message)
SelectedCommitMessages == << <<"f", "i", "x">> >>

\* whether s has a checkbox mark "[x]" or "[ ]" at position i
MarkAt(s, i) == i + 2 <= Len(s) /\ s[i] = "[" /\ s[i + 1] \in {"x", " "} /\ s[i + 2] = "]"

\* s with every checkbox mark set to c: a provider that ticks or unticks every box
SetMarks(s, c) == [i \in 1..Len(s) |-> IF i > 1 /\ MarkAt(s, i - 1) THEN c ELSE s[i]]

\* the texts a provider may send back for a template: the template itself, the
\* template with every box ticked, the template with every box unticked
ProviderReplies(t) == {t, SetMarks(t, "x"), SetMarks(t, " ")}

\* the pieces the checked templates are made of
TemplateTokens ==
    << <<"a">>, <<"\n">>, <<" ">>, <<"\n", "\n", "\n">>, <<"\n", "\n", "\n", "\n">>,
       <<"#", " ", "h">>, <<"#">>,
       <<"-", " ", "[", "x", "]">>, <<"-", "[", " ", "]", " ", "b">>,
       <<"*", " ">>,
       Fence, Fence \o <<"M", "a", "r", "k", "d", "o", "w", "n">>,
       NoneWord >>

\* the largest number of pieces in a checked template
MaxTokens == 3

RECURSIVE TextsOf(_)
\* every text made of exactly n pieces
TextsOf(n) ==
    IF n = 0 THEN {<<>>}
    ELSE {t \o TemplateTokens[k] : t \in TextsOf(n - 1), k \in 1..Len(TemplateTokens)}

TemplateTexts == UNION {TextsOf(n) : n \in 0..MaxTokens}

-----------------------------------------------------------------------------
(* Generators and provider clients (configService.ts, prTemplateService.ts) *)

Providers == {"gemini", "openai", "local"}

\* the setting a provider cannot work without
RequiredSetting(p) ==
    IF p = "gemini" THEN "geminiApiKey"
    ELSE IF p = "openai" THEN "openaiApiKey"
    ELSE "localLlmBaseUrl"

\* the value of that setting: the API key, or the base URL
credentialOf(s, p) == s[RequiredSetting(p)]

\* the backend the client of provider p posts to
BackendOf(p) ==
    IF p = "gemini" THEN "generativelanguage.googleapis.com"
    ELSE IF p = "openai" THEN "api.openai.com"
    ELSE "localLlmBaseUrl"

NoError ==
    [kind |-> "none", provider |-> "none", cause |-> "none", wrappedBy |-> "none",
     advice |-> "none"]

\* throw new Error("... not configured. Please add it in the extension settings.")
NotConfigured(p) ==
    [kind |-> "notConfigured", provider |-> p, cause |-> RequiredSetting(p), wrappedBy |-> "none",
     advice |-> "add it in the extension settings"]

\* throw new Error(`${provider} API error: ${status} - ${data}`)
ApiError(p, status) ==
    [kind |-> "apiError", provider |-> p, cause |-> status, wrappedBy |-> "none",
     advice |-> "none"]

\* throw new Error(`Failed to call ${provider} API: ${message}`)
CallFailed(p, cause) ==
    [kind |-> "callFailed", provider |-> p, cause |-> cause, wrappedBy |-> "none",
     advice |-> "none"]

\* throw new Error(`Failed to get git changes: No changes detected ...`)
NoChangesDetected ==
    [kind |-> "gitFailed", provider |-> "none", cause |-> "noChangesDetected",
     wrappedBy |-> "none", advice |-> "none"]

\* throw new Error(`Failed to generate worklog: ${message}`) and its commit-message twin
Wrapped(e, generator) == [e EXCEPT !.wrappedBy = generator]

\* the finish reasons of a complete and of a cut-off reply
StopReason(p) == IF p = "gemini" THEN "STOP" ELSE "stop"
CutoffReason(p) == IF p = "gemini" THEN "MAX_TOKENS" ELSE "length"

\* error.response.status of an answer outside the 2xx range: invalid request
\* or unsupported model, invalid credential, model not found, rate limited
ErrorStatuses == {"400", "401", "404", "429"}

\* the answer with the error status st
StatusResponse(st) ==
    [kind |-> "status", status |-> st, candidates |-> 0, finish |-> "", text |-> ""]

\* what the backend of provider p may answer: no answer at all, an error
\* status, an envelope without candidates, an envelope with one candidate
Responses(p) ==
    {[kind |-> "network", status |-> "", candidates |-> 0, finish |-> "", text |-> ""],
     [kind |-> "ok", status |-> "200", candidates |-> 0, finish |-> "", text |-> ""],
     [kind |-> "ok", status |-> "200", candidates |-> 1, finish |-> "", text |-> "full"],
     [kind |-> "ok", status |-> "200", candidates |-> 1, finish |-> StopReason(p),
      text |-> "full"],
     [kind |-> "ok", status |-> "200", candidates |-> 1, finish |-> CutoffReason(p),
      text |-> "partial"]}
    \cup {StatusResponse(st) : st \in ErrorStatuses}

\* mutant: the request is posted a second time
axiosPost_twice(log, req) == Append(Append(log, req), req)

\* await axios.post(url, body, { headers })
axiosPost(log, req) == Append(log, req)

\* callGeminiApi / callOpenAiApi / callLocalLlmApi after the await: the text of
\* the first candidate, or the error thrown from the catch block
clientOutcome(p, r) ==
    IF r.kind = "status" THEN [ok |-> FALSE, text |-> "", error |-> ApiError(p, r.status)]
    ELSE IF r.kind = "network" THEN [ok |-> FALSE, text |-> "", error |-> CallFailed(p, "network")]
    ELSE IF r.candidates = 0 THEN [ok |-> FALSE, text |-> "", error |-> CallFailed(p, "TypeError")]
    ELSE [ok |-> TRUE, text |-> r.text, error |-> NoError]

\* console.warn in callGeminiApi / callOpenAiApi / callLocalLlmApi: there is none
clientWarnings(p, r) == <<>>

\* callGeminiForTemplate / callOpenAIForTemplate / callLocalLLMForTemplate after
\* the await: no catch block, the failure of axios or of candidates[0] propagates
templateClientOutcome(p, r) ==
    IF r.kind = "status" THEN [ok |-> FALSE, text |-> "", error |-> ApiError(p, r.status)]
    ELSE IF r.kind = "network" THEN [ok |-> FALSE, text |-> "", error |-> CallFailed(p, "network")]
    ELSE IF r.candidates = 0 THEN [ok |-> FALSE, text |-> "", error |-> CallFailed(p, "TypeError")]
    ELSE [ok |-> TRUE, text |-> r.text, error |-> NoError]

\* console.warn in the template clients
templateClientWarnings(p, r) ==
    IF r.kind = "ok" /\ r.candidates > 0 /\ r.finish # "" /\ r.finish # StopReason(p)
    THEN <<"response incomplete">>
            \o (IF r.finish = CutoffReason(p) THEN <<"truncated due to token limit">> ELSE <<>>)
    ELSE <<>>

NoCall == [generator |-> "none", provider |-> "none", changes |-> <<>>, style |-> "none"]

\* the prompt a generator builds for its request
promptOf(c) ==
    IF c.generator = "generateCommitMessage"
    THEN createCommitMessagePrompt(c.changes)
    ELSE createWorklogPrompt(c.changes, c.style)

\* the request a client posts
requestOf(generator, p, s, payload) ==
    [by |-> generator, to |-> BackendOf(p), provider |-> p,
     credential |-> credentialOf(s, p), prompt |-> payload]

\* generateWorklog / generateCommitMessage up to the await of the client: the
\* configuration error thrown, or the log with the one request posted
beginGenerator(c, s, log) ==
    IF credentialOf(s, c.provider) = ""
    THEN [threw |-> TRUE, error |-> Wrapped(NotConfigured(c.provider), c.generator), log |-> log]
    ELSE [threw |-> FALSE, error |-> NoError,
          log |-> axiosPost(log, requestOf(c.generator, c.provider, s, promptOf(c)))]

\* fillTemplateWithAI up to the await of its client: the provider and the
\* credential are read from the settings and the request is posted
beginTemplate(s, log, worklog) ==
    axiosPost(log, requestOf("fillTemplateWithAI", s.defaultLlmProvider, s, worklog))

\* the provider whose template client waits: the one of the last request
\* fillTemplateWithAI posted
templateProvider(log) ==
    LET k == Max({i \in 1..Len(log) : log[i].by = "fillTemplateWithAI"})
    IN log[k].provider

\* the texts a diff source may give
DiffTexts == {<<>>, <<" ", "\n">>, <<"d">>}

\* getGitChanges: if (!allChanges.trim()) throw new Error('No changes detected ...')
getGitChangesThrows(raw) == Trim(raw) = <<>>

\* if (!changes || changes.trim() === "")
isEmptyChanges(c) == Trim(c) = <<>>

CommitHeader == <<"C", "o", "m", "m", "i", "t", ":", " ", "h", "\n", "M", "e", "s", "s", "a", "g", "e", ":", " ", "m", "\n">>
ChangesHeader == <<"C", "h", "a", "n", "g", "e", "s", ":", "\n">>
UnableToFetch == <<"C", "h", "a", "n", "g", "e", "s", ":", " ", "U", "n", "a", "b", "l", "e", " ", "t", "o", " ", "f", "e", "t", "c", "h", " ", "c", "h", "a", "n", "g", "e", "s">>
CommitSeparator == <<"\n", "\n", "-", "-", "-", "\n", "\n">>

\* what getSelectedCommit(commit.hash) did for one selected commit
Fetched(d) == [fetched |-> TRUE, changes |-> d]
NotFetched == [fetched |-> FALSE, changes |-> <<>>]

\* what generatePRFromCommits makes of one selected commit
commitSection(f) ==
    IF f.fetched THEN CommitHeader \o ChangesHeader \o f.changes
    ELSE CommitHeader \o UnableToFetch

\* commitChanges.join('\n\n---\n\n')
RECURSIVE combinedChanges(_)
combinedChanges(ds) ==
    IF Len(ds) = 0 THEN <<>>
    ELSE IF Len(ds) = 1 THEN commitSection(ds[1])
    ELSE commitSection(ds[1]) \o CommitSeparator \o combinedChanges(Tail(ds))

-----------------------------------------------------------------------------
(* Prompt building on its own: one builder applied to one change text *)

Builders == {"createPrompt", "createWorklogPrompt", "createCommitMessagePrompt"}
Styles == {"technical", "business", "commit-message"}

\* how far below and above the cap the lengths of the checked change texts range
PromptSlack == 2

\* endings of the checked change texts: nothing, a diff line, dots, the marker itself
ChangeTails == {<<>>, <<"b">>, <<"\n">>, <<".", ".">>, TruncationMarker}

ChangeTexts ==
    {Fill(n) \o t : n \in (MaxChanges - PromptSlack)..(MaxChanges + PromptSlack), t \in ChangeTails}

PromptIdle ==
    /\ changes = <<>>
    /\ worklogStyle = "business"
    /\ builder = "createWorklogPrompt"
    /\ prompt = NoPrompt
    /\ ppc = "idle"

CommitIdle ==
    /\ response = <<>>
    /\ commitResult = NoCommitResult
    /\ cpc = "idle"

TemplateIdle ==
    /\ template = <<>>
    /\ filler = "fillPRTemplate"
    /\ commitMessages = NullMessages
    /\ templatePrompt = NoTemplatePrompt
    /\ templateReply = <<>>
    /\ filled = <<>>
    /\ tpc = "idle"

IdleSettings ==
    [geminiApiKey |-> "", openaiApiKey |-> "", localLlmBaseUrl |-> "",
     defaultLlmProvider |-> "gemini", defaultWorklogStyle |-> "business",
     autoGenerateOnCommit |-> FALSE]

NoText == [kind |-> "none", text |-> ""]

GenIdle ==
    /\ settings = IdleSettings
    /\ llmProvider = "gemini"
    /\ isGenerating = FALSE
    /\ entry = "none"
    /\ gpc = "off"
    /\ call = NoCall
    /\ emptySource = FALSE
    /\ httpLog = <<>>
    /\ replies = <<>>
    /\ warnLog = <<>>
    /\ signal = "none"
    /\ lastError = NoError
    /\ generated = NoText
    /\ edits = 0
    /\ generatedWorklog = NoText
    /\ workspaceState = NoText
    /\ panel = NoText

\* the context of a command that has not started
FreshContext ==
    [entry |-> "none", gpc |-> "idle", call |-> NoCall, emptySource |-> FALSE,
     signal |-> "none", lastError |-> NoError, generated |-> NoText]

OverlapIdle == other = FreshContext

PanelIdle == contentType = "worklog" /\ dispatched = <<>>

\* the defaults of the settings the configuration commands write
DefaultConfig ==
    [geminiApiKey |-> "", openaiApiKey |-> "", selectedGeminiModel |-> "",
     selectedOpenAIModel |-> "", defaultLlmProvider |-> "gemini"]
ConfigIdle == config = DefaultConfig /\ fills = <<>>

\* includeInCommitMessage was never invoked
NoInclude == [pc |-> "idle", worklog |-> <<>>]
ScmIdle ==
    /\ includeWorklog = FALSE
    /\ lastGeneratedWorklog = Undefined
    /\ inputBox = <<>>
    /\ events = <<>>
    /\ incl = NoInclude
    /\ includeCount = 0

\* no success notification has been answered
NotifyIdle == deliveries = <<>>

\* getCacheKey: `${provider}:${apiKey.substring(0, 8)}`
KeyPrefix == 8
getCacheKey(provider, apiKey) == <<provider, Substring0(apiKey, KeyPrefix)>>

\* the providers whose models are listed, and API keys: two that begin with
\* the same eight characters and one that does not
ListedProviders == {"gemini", "openai"}
ApiKeys == {Fill(KeyPrefix) \o <<"1">>, Fill(KeyPrefix) \o <<"2">>, <<"k">>}
CacheKeys == {getCacheKey(p, k) : p \in ListedProviders, k \in ApiKeys}

\* modelCache.get(key) of a key that was never set
NotCached == [present |-> FALSE, models |-> <<>>]
Cached(models) == [present |-> TRUE, models |-> models]

\* new Map<string, ModelInfo[]>()
EmptyCache == [k \in CacheKeys |-> NotCached]

ModelIdle == modelCache = EmptyCache /\ fetches = <<>> /\ netLog = <<>>

NoFormat == [split |-> FALSE, worklogSection |-> <<>>, dsuSection |-> <<>>]

FormatIdle == htmlContent = <<>> /\ formatted = NoFormat /\ fpc = "idle"

\* everything but the prompt builders' variables, and its resting state
nonPromptVars == <<commitVars, templateVars, genVars, overlapVars, formatVars, modelVars, notifyVars, scmVars, configVars, panelVars>>
NonPromptIdle == CommitIdle /\ TemplateIdle /\ GenIdle /\ OverlapIdle /\ FormatIdle /\ ModelIdle /\ NotifyIdle /\ ScmIdle /\ ConfigIdle /\ PanelIdle

PromptInit ==
    /\ changes \in ChangeTexts
    /\ worklogStyle \in Styles
    /\ builder \in Builders
    /\ prompt = NoPrompt
    /\ ppc = "ready"
    /\ NonPromptIdle

BuildWorklogPromptOld ==
    /\ ppc = "ready"
    /\ builder = "createPrompt"
    /\ prompt' = createPrompt(changes, worklogStyle)
    /\ ppc' = "built"
    /\ UNCHANGED <<changes, worklogStyle, builder>>
    /\ UNCHANGED nonPromptVars

BuildWorklogPrompt ==
    /\ ppc = "ready"
    /\ builder = "createWorklogPrompt"
    /\ prompt' = createWorklogPrompt(changes, worklogStyle)
    /\ ppc' = "built"
    /\ UNCHANGED <<changes, worklogStyle, builder>>
    /\ UNCHANGED nonPromptVars

BuildCommitMessagePrompt ==
    /\ ppc = "ready"
    /\ builder = "createCommitMessagePrompt"
    /\ prompt' = createCommitMessagePrompt(changes)
    /\ ppc' = "built"
    /\ UNCHANGED <<changes, worklogStyle, builder>>
    /\ UNCHANGED nonPromptVars

PromptNext ==
    \/ BuildWorklogPromptOld
    \/ BuildWorklogPrompt
    \/ BuildCommitMessagePrompt

SpecPrompt == PromptInit /\ [][PromptNext]_vars

-----------------------------------------------------------------------------
(* Reply parsing on its own: generateCommitMessage applied to one provider reply *)

\* everything but the reply parser's variables, and its resting state
nonCommitVars == <<promptVars, templateVars, genVars, overlapVars, formatVars, modelVars, notifyVars, scmVars, configVars, panelVars>>
NonCommitIdle == PromptIdle /\ TemplateIdle /\ GenIdle /\ OverlapIdle /\ FormatIdle /\ ModelIdle /\ NotifyIdle /\ ScmIdle /\ ConfigIdle /\ PanelIdle

CommitInit ==
    /\ response \in CommitReplies \cup {Undefined}
    /\ commitResult = NoCommitResult
    /\ cpc = "ready"
    /\ NonCommitIdle

\* generateCommitMessage from the provider's reply to its return
ParseCommitReply ==
    /\ cpc = "ready"
    /\ IF parseThrows(response)
       THEN /\ commitResult' = NoCommitResult
            /\ cpc' = "threw"
       ELSE /\ commitResult' = parseCommitReply(response)
            /\ cpc' = "parsed"
    /\ UNCHANGED response
    /\ UNCHANGED nonCommitVars

CommitNext == ParseCommitReply

SpecCommit == CommitInit /\ [][CommitNext]_vars

-----------------------------------------------------------------------------
(* Template filling on its own: one filler applied to one template *)

\* everything but the template filler's variables, and its resting state
nonTemplateVars == <<promptVars, commitVars, genVars, overlapVars, formatVars, modelVars, notifyVars, scmVars, configVars, panelVars>>
NonTemplateIdle == PromptIdle /\ CommitIdle /\ GenIdle /\ OverlapIdle /\ FormatIdle /\ ModelIdle /\ NotifyIdle /\ ScmIdle /\ ConfigIdle /\ PanelIdle

TemplateInit ==
    /\ template \in TemplateTexts
    /\ filler \in {"fillPRTemplate", "fillPRTemplateFromCommits"}
    /\ commitMessages = NullMessages
    /\ templatePrompt = NoTemplatePrompt
    /\ templateReply = <<>>
    /\ filled = <<>>
    /\ tpc = "ready"
    /\ NonTemplateIdle

\* fillPRTemplate up to the await of the provider client
FillPRTemplate ==
    /\ tpc = "ready"
    /\ filler = "fillPRTemplate"
    /\ commitMessages' = NullMessages
    /\ templatePrompt' = templatePromptOf(template, WorklogContent, NullMessages)
    /\ tpc' = "awaiting"
    /\ UNCHANGED <<template, filler, templateReply, filled>>
    /\ UNCHANGED nonTemplateVars

\* fillPRTemplateFromCommits up to the await of the provider client
FillPRTemplateFromCommits ==
    /\ tpc = "ready"
    /\ filler = "fillPRTemplateFromCommits"
    /\ commitMessages' = Messages(SelectedCommitMessages)
    /\ templatePrompt' = templatePromptOf(template, WorklogContent, Messages(SelectedCommitMessages))
    /\ tpc' = "awaiting"
    /\ UNCHANGED <<template, filler, templateReply, filled>>
    /\ UNCHANGED nonTemplateVars

\* the provider client returns a text: return cleanupTemplate(filledTemplate)
TemplateReplyArrives ==
    /\ tpc = "awaiting"
    /\ \E r \in ProviderReplies(template) :
          /\ templateReply' = r
          /\ filled' = cleanupTemplate(r)
    /\ tpc' = "cleaned"
    /\ UNCHANGED <<template, filler, commitMessages, templatePrompt>>
    /\ UNCHANGED nonTemplateVars

\* the provider client throws: catch (error) { return templateContent }
TemplateCallFails ==
    /\ tpc = "awaiting"
    /\ templateReply' = <<>>
    /\ filled' = template
    /\ tpc' = "fellBack"
    /\ UNCHANGED <<template, filler, commitMessages, templatePrompt>>
    /\ UNCHANGED nonTemplateVars

TemplateNext ==
    \/ FillPRTemplate
    \/ FillPRTemplateFromCommits
    \/ TemplateReplyArrives
    \/ TemplateCallFails

SpecTemplate == TemplateInit /\ [][TemplateNext]_vars

-----------------------------------------------------------------------------
(* The generation commands: one command from its invocation to its end *)

\* everything but the commands' variables, and its resting state
nonGenVars == <<promptVars, commitVars, templateVars, overlapVars, formatVars, modelVars, notifyVars, scmVars, configVars, panelVars>>
NonGenIdle == PromptIdle /\ CommitIdle /\ TemplateIdle /\ OverlapIdle /\ FormatIdle /\ ModelIdle /\ NotifyIdle /\ ScmIdle /\ ConfigIdle /\ PanelIdle

\* how often the settings may be edited while a command waits
MaxEdits == 1

\* the largest number of commits selected in generatePRFromCommits
MaxCommits == 2

CredentialValues == {"", "set"}

SettingsSpace ==
    [geminiApiKey : CredentialValues, openaiApiKey : CredentialValues,
     localLlmBaseUrl : CredentialValues, defaultLlmProvider : Providers,
     defaultWorklogStyle : {"business"}, autoGenerateOnCommit : BOOLEAN]

\* the commands of WorklogTreeDataProvider, which set and clear isGenerating
TreeCommands ==
    {"generateFromCurrentChanges", "generateFromCommit", "generateFromSpecificCommit",
     "generateCommitMessage", "generatePRTemplate", "generatePRFromCommits"}

PRCommands == {"generatePRTemplate", "generatePRFromCommits"}

\* the tree-view commands that keep the worklog in generatedWorklog
WorklogTreeCommands ==
    {"generateFromCurrentChanges", "generateFromCommit", "generateFromSpecificCommit"}

\* what an earlier command generated, stored and showed
Previous == [kind |-> "worklog", text |-> "previous"]

\* how a command reports an error, and how it reports that there is nothing to do
ErrorSignal(e) == IF e = "generateWorklogBeforeCommit" THEN "consoleError" ELSE "error"
NoChangesSignal(e) == IF e = "generateWorklogBeforeCommit" THEN "none" ELSE "noChanges"

GenInit ==
    /\ settings \in SettingsSpace
    /\ llmProvider = settings.defaultLlmProvider
    /\ isGenerating = FALSE
    /\ entry = "none"
    /\ gpc = "idle"
    /\ call = NoCall
    /\ emptySource = FALSE
    /\ httpLog = <<>>
    /\ replies = <<>>
    /\ warnLog = <<>>
    /\ signal = "none"
    /\ lastError = NoError
    /\ generated = NoText
    /\ edits = 0
    /\ generatedWorklog = Previous
    /\ workspaceState = Previous
    /\ panel = Previous
    /\ NonGenIdle

\* mutant: a command that ends leaves isGenerating as it is
Ends_leavesFlag(e, sig, err, t) ==
    /\ gpc' = "done"
    /\ isGenerating' = isGenerating
    /\ signal' = sig
    /\ lastError' = err
    /\ generated' = t
    /\ generatedWorklog' = IF sig = "result" /\ e \in WorklogTreeCommands
                           THEN t ELSE generatedWorklog
    /\ workspaceState' = IF sig = "result"
                            /\ e \in WorklogTreeCommands \cup {"worklog-ai.generateWorklog"}
                         THEN t ELSE workspaceState
    /\ panel' = IF sig = "result" /\ e # "generateWorklogBeforeCommit" THEN t ELSE panel

\* the command e ends: with the message sig, the caught error err, the text t
Ends(e, sig, err, t) ==
    /\ gpc' = "done"
    /\ isGenerating' = IF e \in TreeCommands THEN FALSE ELSE isGenerating
    /\ signal' = sig
    /\ lastError' = err
    /\ generated' = t
    /\ generatedWorklog' = IF sig = "result" /\ e \in WorklogTreeCommands
                           THEN t ELSE generatedWorklog
    /\ workspaceState' = IF sig = "result"
                            /\ e \in WorklogTreeCommands \cup {"worklog-ai.generateWorklog"}
                         THEN t ELSE workspaceState
    /\ panel' = IF sig = "result" /\ e # "generateWorklogBeforeCommit" THEN t ELSE panel

\* the command e calls the generator with the arguments c under the settings s
\* and either catches its configuration error or waits for the provider
Calls(e, c, s) ==
    LET b == beginGenerator(c, s, httpLog)
    IN /\ call' = c
       /\ httpLog' = b.log
       /\ IF b.threw
          THEN Ends(e, ErrorSignal(e), b.error, NoText)
          ELSE /\ gpc' = IF c.generator = "generateCommitMessage"
                         THEN "awaitCommitMessage" ELSE "awaitWorklog"
               /\ isGenerating' = IF e \in TreeCommands THEN TRUE ELSE isGenerating
               /\ signal' = "none"
               /\ lastError' = NoError
               /\ generated' = NoText
               /\ UNCHANGED <<generatedWorklog, workspaceState, panel>>

\* a command from the read of its diff source to the generator call: the
\* source throws, or the text is empty, or the generator is called
RunsOn(e, source, generator, p, style, s) ==
    \E raw \in DiffTexts :
       /\ entry' = e
       /\ emptySource' = isEmptyChanges(raw)
       /\ IF source = "getGitChanges" /\ getGitChangesThrows(raw)
          THEN /\ Ends(e, ErrorSignal(e), NoChangesDetected, NoText)
               /\ UNCHANGED <<call, httpLog>>
          ELSE IF isEmptyChanges(raw)
          THEN /\ Ends(e, NoChangesSignal(e), NoError, NoText)
               /\ UNCHANGED <<call, httpLog>>
          ELSE Calls(e, [generator |-> generator, provider |-> p, changes |-> raw, style |-> style], s)

\* extension.ts, command worklog-ai.generateWorklog: the user picks a provider,
\* enters a missing key or URL or gives up, picks a style and a source
GenerateWorklogWizard ==
    /\ gpc = "idle"
    /\ \E p \in Providers, entered \in BOOLEAN, style \in {"technical", "business"},
          source \in {"getGitChanges", "getSelectedCommit"} :
          IF credentialOf(settings, p) = "" /\ ~entered
          THEN /\ entry' = "worklog-ai.generateWorklog"
               /\ gpc' = "done"
               /\ signal' = "settingRequired"
               /\ UNCHANGED <<settings, isGenerating, call, emptySource, httpLog, lastError,
                               generated, generatedWorklog, workspaceState, panel>>
          ELSE LET s == IF credentialOf(settings, p) = ""
                        THEN [settings EXCEPT ![RequiredSetting(p)] = "set"]
                        ELSE settings
               IN /\ settings' = s
                  /\ RunsOn("worklog-ai.generateWorklog", source, "generateWorklog", p, style, s)
    /\ UNCHANGED <<llmProvider, replies, warnLog, edits>>
    /\ UNCHANGED nonGenVars

GenerateFromCurrentChanges ==
    /\ gpc = "idle"
    /\ ~isGenerating
    /\ RunsOn("generateFromCurrentChanges", "getGitChanges", "generateWorklog",
              llmProvider, settings.defaultWorklogStyle, settings)
    /\ UNCHANGED <<settings, llmProvider, replies, warnLog, edits>>
    /\ UNCHANGED nonGenVars

GenerateFromCommit ==
    /\ gpc = "idle"
    /\ ~isGenerating
    /\ RunsOn("generateFromCommit", "getSelectedCommit", "generateWorklog",
              llmProvider, settings.defaultWorklogStyle, settings)
    /\ UNCHANGED <<settings, llmProvider, replies, warnLog, edits>>
    /\ UNCHANGED nonGenVars

GenerateFromSpecificCommit ==
    /\ gpc = "idle"
    /\ ~isGenerating
    /\ RunsOn("generateFromSpecificCommit", "getSelectedCommit", "generateWorklog",
              llmProvider, settings.defaultWorklogStyle, settings)
    /\ UNCHANGED <<settings, llmProvider, replies, warnLog, edits>>
    /\ UNCHANGED nonGenVars

GenerateCommitMessage ==
    /\ gpc = "idle"
    /\ ~isGenerating
    /\ RunsOn("generateCommitMessage", "getGitChanges", "generateCommitMessage",
              llmProvider, "commit-message", settings)
    /\ UNCHANGED <<settings, llmProvider, replies, warnLog, edits>>
    /\ UNCHANGED nonGenVars

\* findPRTemplates and what the user does when it finds nothing: a template
\* is found, or one is pasted, or the input box is dismissed, or the offer to
\* paste is declined
TemplateSearches == {"found", "pasted", "pasteDismissed", "declined"}

\* the command e returns before it has read any change
ReturnsEarly(e, sig) ==
    /\ entry' = e
    /\ Ends(e, sig, NoError, NoText)
    /\ UNCHANGED <<call, emptySource, httpLog>>

\* the provider is read from the settings again before the work starts
GeneratePRTemplate ==
    /\ gpc = "idle"
    /\ ~isGenerating
    /\ llmProvider' = settings.defaultLlmProvider
    /\ \E search \in TemplateSearches :
          IF search \in {"pasteDismissed", "declined"}
          THEN ReturnsEarly("generatePRTemplate", "noTemplates")
          ELSE RunsOn("generatePRTemplate", "getGitChanges", "generateWorklog",
                      settings.defaultLlmProvider, "business", settings)
    /\ UNCHANGED <<settings, replies, warnLog, edits>>
    /\ UNCHANGED nonGenVars

\* the lists of fetch results of the selected commits
RECURSIVE FetchLists(_)
FetchLists(n) ==
    IF n = 0 THEN {<<>>}
    ELSE {Append(fs, f) : fs \in FetchLists(n - 1),
                          f \in {Fetched(d) : d \in DiffTexts} \cup {NotFetched}}

\* the changes of every selected commit are fetched and joined; the joined text
\* goes to generateWorklog as it is
GeneratePRFromCommits ==
    /\ gpc = "idle"
    /\ ~isGenerating
    /\ llmProvider' = settings.defaultLlmProvider
    /\ \/ \E search \in TemplateSearches :
             /\ search \in {"pasteDismissed", "declined"}
             /\ ReturnsEarly("generatePRFromCommits", "noTemplates")
       \/ ReturnsEarly("generatePRFromCommits", "noCommits")
       \/ ReturnsEarly("generatePRFromCommits", "cancelled")
       \/ \E n \in 1..MaxCommits : \E fs \in FetchLists(n) :
             /\ entry' = "generatePRFromCommits"
             /\ emptySource' = \A k \in 1..n : fs[k].fetched /\ isEmptyChanges(fs[k].changes)
             /\ Calls("generatePRFromCommits",
                      [generator |-> "generateWorklog",
                       provider |-> settings.defaultLlmProvider,
                       changes |-> combinedChanges(fs), style |-> "business"],
                      settings)
    /\ UNCHANGED <<settings, replies, warnLog, edits>>
    /\ UNCHANGED nonGenVars

\* gitIntegration, command worklog-ai.generateWorklogBeforeCommit
GenerateWorklogBeforeCommit ==
    /\ gpc = "idle"
    /\ settings.autoGenerateOnCommit
    /\ RunsOn("generateWorklogBeforeCommit", "getGitChanges", "generateWorklog",
              settings.defaultLlmProvider, settings.defaultWorklogStyle, settings)
    /\ UNCHANGED <<settings, llmProvider, replies, warnLog, edits>>
    /\ UNCHANGED nonGenVars

\* generateWorklog resumes with the answer of the backend: its client returns
\* the text or throws, the generator wraps the error, and the command either
\* reports, or shows the worklog, or goes on to fill the chosen template
WorklogResponds ==
    /\ gpc = "awaitWorklog"
    /\ \E r \in Responses(call.provider), chosen \in BOOLEAN :
          LET o == clientOutcome(call.provider, r)
          IN /\ replies' = Append(replies, [by |-> call.generator, provider |-> call.provider,
                                            response |-> r])
             /\ warnLog' = warnLog \o clientWarnings(call.provider, r)
             /\ IF ~o.ok
                THEN /\ Ends(entry, ErrorSignal(entry), Wrapped(o.error, call.generator), NoText)
                     /\ httpLog' = httpLog
                ELSE IF entry \notin PRCommands
                THEN /\ Ends(entry, "result", NoError, [kind |-> "worklog", text |-> o.text])
                     /\ httpLog' = httpLog
                ELSE IF ~chosen
                THEN /\ Ends(entry, "cancelled", NoError, [kind |-> "worklog", text |-> o.text])
                     /\ httpLog' = httpLog
                ELSE /\ httpLog' = beginTemplate(settings, httpLog, o.text)
                     /\ gpc' = "awaitTemplate"
                     /\ generated' = [kind |-> "worklog", text |-> o.text]
                     /\ UNCHANGED <<isGenerating, signal, lastError, generatedWorklog,
                                     workspaceState, panel>>
    /\ UNCHANGED <<settings, llmProvider, entry, call, emptySource, edits>>
    /\ UNCHANGED nonGenVars

\* generateCommitMessage resumes with the answer of the backend
CommitMessageResponds ==
    /\ gpc = "awaitCommitMessage"
    /\ \E r \in Responses(call.provider) :
          LET o == clientOutcome(call.provider, r)
          IN /\ replies' = Append(replies, [by |-> call.generator, provider |-> call.provider,
                                            response |-> r])
             /\ warnLog' = warnLog \o clientWarnings(call.provider, r)
             /\ IF ~o.ok
                THEN Ends(entry, ErrorSignal(entry), Wrapped(o.error, call.generator), NoText)
                ELSE Ends(entry, "result", NoError, [kind |-> "commitMessage", text |-> o.text])
    /\ UNCHANGED <<settings, llmProvider, entry, call, emptySource, httpLog, edits>>
    /\ UNCHANGED nonGenVars

\* fillTemplateWithAI resumes with the answer of the backend: the cleaned reply
\* is returned, or the failure is caught and the template is returned; the
\* command shows whichever text it got
TemplateResponds ==
    /\ gpc = "awaitTemplate"
    /\ LET p == templateProvider(httpLog)
       IN \E r \in Responses(p) :
             LET o == templateClientOutcome(p, r)
             IN /\ replies' = Append(replies, [by |-> "fillTemplateWithAI", provider |-> p,
                                               response |-> r])
                /\ warnLog' = warnLog \o templateClientWarnings(p, r)
                /\ Ends(entry, "result", NoError,
                        IF o.ok THEN [kind |-> "filledTemplate", text |-> o.text]
                        ELSE [kind |-> "template", text |-> ""])
    /\ UNCHANGED <<settings, llmProvider, entry, call, emptySource, httpLog, edits>>
    /\ UNCHANGED nonGenVars

\* the user edits a setting while a command waits; the tree view's
\* onDidChangeConfiguration handler reads the provider again
SettingsChange ==
    /\ gpc \in {"awaitWorklog", "awaitCommitMessage", "awaitTemplate"}
    /\ edits < MaxEdits
    /\ \/ \E k \in {"geminiApiKey", "openaiApiKey", "localLlmBaseUrl"}, v \in CredentialValues :
             /\ v # settings[k]
             /\ settings' = [settings EXCEPT ![k] = v]
       \/ \E q \in Providers :
             /\ q # settings.defaultLlmProvider
             /\ settings' = [settings EXCEPT !.defaultLlmProvider = q]
    /\ llmProvider' = settings'.defaultLlmProvider
    /\ edits' = edits + 1
    /\ UNCHANGED <<isGenerating, entry, gpc, call, emptySource, httpLog, replies, warnLog,
                   signal, lastError, generated, generatedWorklog, workspaceState, panel>>
    /\ UNCHANGED nonGenVars

Next ==
    \/ GenerateWorklogWizard
    \/ GenerateFromCurrentChanges
    \/ GenerateFromCommit
    \/ GenerateFromSpecificCommit
    \/ GenerateCommitMessage
    \/ GeneratePRTemplate
    \/ GeneratePRFromCommits
    \/ GenerateWorklogBeforeCommit
    \/ WorklogResponds
    \/ CommitMessageResponds
    \/ TemplateResponds
    \/ SettingsChange

Init == GenInit

Spec == Init /\ [][Next]_vars

-----------------------------------------------------------------------------
(* The tree-view commands under fairness: a request that was posted is     *)
(* settled by axios with an answer or an error, and the event loop then    *)
(* resumes the function that awaits it.                                    *)

LiveInit ==
    /\ GenInit
    /\ settings.defaultLlmProvider = "gemini"
    /\ settings.openaiApiKey = "set"
    /\ settings.localLlmBaseUrl = "set"
    /\ ~settings.autoGenerateOnCommit

LiveNext ==
    \/ GenerateFromCurrentChanges
    \/ GenerateFromCommit
    \/ GenerateFromSpecificCommit
    \/ GenerateCommitMessage
    \/ GeneratePRTemplate
    \/ GeneratePRFromCommits
    \/ WorklogResponds
    \/ CommitMessageResponds
    \/ TemplateResponds

SpecLive ==
    /\ LiveInit
    /\ [][LiveNext]_vars
    /\ WF_vars(WorklogResponds)
    /\ WF_vars(CommitMessageResponds)
    /\ WF_vars(TemplateResponds)

-----------------------------------------------------------------------------
(* Two commands interleaved.  Every command is an async function: it runs  *)
(* up to an await and the event loop may then start another command or     *)
(* resume one whose answer arrived.  isGenerating, the settings, the HTTP  *)
(* log, the panel and the stored worklog are shared; the rest belongs to   *)
(* the command.                                                            *)

AwaitStates == {"awaitWorklog", "awaitCommitMessage", "awaitTemplate"}

\* the context of the command that runs now
Context ==
    [entry |-> entry, gpc |-> gpc, call |-> call, emptySource |-> emptySource,
     signal |-> signal, lastError |-> lastError, generated |-> generated]

\* the event loop leaves the command that waits or has ended and turns to the
\* other one: a command not yet invoked, or one that waits for its answer
SwitchCommand ==
    /\ gpc \in AwaitStates \cup {"done"}
    /\ other.gpc \in AwaitStates \cup {"idle"}
    /\ other' = Context
    /\ entry' = other.entry
    /\ gpc' = other.gpc
    /\ call' = other.call
    /\ emptySource' = other.emptySource
    /\ signal' = other.signal
    /\ lastError' = other.lastError
    /\ generated' = other.generated
    /\ UNCHANGED <<settings, llmProvider, isGenerating, httpLog, replies, warnLog, edits,
                   generatedWorklog, workspaceState, panel>>
    /\ UNCHANGED <<nonCommandVars, notifyVars>>

\* every provider is configured and the commit hook is on
OverlapSettings ==
    [geminiApiKey |-> "set", openaiApiKey |-> "set", localLlmBaseUrl |-> "set",
     defaultLlmProvider |-> "gemini", defaultWorklogStyle |-> "business",
     autoGenerateOnCommit |-> TRUE]

OverlapInit ==
    /\ GenInit
    /\ settings = OverlapSettings

OverlapNext ==
    \/ GenerateWorklogWizard
    \/ GenerateFromCurrentChanges
    \/ GenerateFromCommit
    \/ GenerateFromSpecificCommit
    \/ GenerateCommitMessage
    \/ GeneratePRTemplate
    \/ GeneratePRFromCommits
    \/ GenerateWorklogBeforeCommit
    \/ WorklogResponds
    \/ CommitMessageResponds
    \/ TemplateResponds
    \/ SwitchCommand

SpecOverlap == OverlapInit /\ [][OverlapNext]_vars

-----------------------------------------------------------------------------
(* The success notification.  A tree-view command that succeeded clears    *)
(* isGenerating and then awaits showInformationMessage with its buttons;   *)
(* until the user answers, other commands may start and finish.  The       *)
(* answer resumes the command inside its try block.                        *)

\* the commands whose notification is modelled, and their buttons
NotifyingCommands == WorklogTreeCommands \cup {"generateCommitMessage"}
Buttons(e) ==
    IF e \in WorklogTreeCommands THEN {"Copy to Clipboard", "Save to File", "dismissed"}
    ELSE {"Copy Message", "dismissed"}

\* the command with context c awaits the answer to its success notification
Notified(c) == c.gpc = "done" /\ c.signal = "result" /\ c.entry \in NotifyingCommands

\* what the button hands over: the worklog commands read this.generatedWorklog
\* when the button is pressed, generateCommitMessage reads its local result
handedOver(c, button) ==
    [via     |-> IF button = "Save to File" THEN "worklog-ai.exportWorklog" ELSE "clipboard",
     command |-> c.entry,
     text    |-> IF c.entry \in WorklogTreeCommands THEN generatedWorklog ELSE c.generated]

\* the context c after the answer: clipboard.writeText may reject, and the
\* catch block of the command then reports the error
answered(c, rejected) ==
    [c EXCEPT !.gpc = "answered",
              !.signal = IF rejected THEN ErrorSignal(c.entry) ELSE c.signal,
              !.lastError = IF rejected THEN CallFailed("clipboard", "rejected") ELSE c.lastError]

\* the user answers the notification of the command with context c
Answer(c, button, rejected) ==
    /\ Notified(c)
    /\ button \in Buttons(c.entry)
    /\ rejected => button \in {"Copy to Clipboard", "Copy Message"}
    /\ deliveries' = IF button = "dismissed" \/ rejected THEN deliveries
                     ELSE Append(deliveries, handedOver(c, button))
    /\ isGenerating' = IF rejected THEN FALSE ELSE isGenerating

\* the notification of the command that ran last is answered
NotificationAnswered ==
    /\ \E button \in Buttons(entry), rejected \in BOOLEAN :
          /\ Answer(Context, button, rejected)
          /\ gpc' = answered(Context, rejected).gpc
          /\ signal' = answered(Context, rejected).signal
          /\ lastError' = answered(Context, rejected).lastError
    /\ UNCHANGED <<settings, llmProvider, entry, call, emptySource, httpLog, replies, warnLog,
                   generated, edits, generatedWorklog, workspaceState, panel, other>>
    /\ UNCHANGED nonCommandVars

\* the notification of the earlier command is answered while the later
\* command waits or has ended
EarlierNotificationAnswered ==
    /\ \E button \in Buttons(other.entry), rejected \in BOOLEAN :
          /\ Answer(other, button, rejected)
          /\ other' = answered(other, rejected)
    /\ UNCHANGED <<settings, llmProvider, entry, gpc, call, emptySource, httpLog, replies,
                   warnLog, signal, lastError, generated, edits, generatedWorklog,
                   workspaceState, panel>>
    /\ UNCHANGED nonCommandVars

NotifyInit ==
    /\ GenInit
    /\ settings = OverlapSettings

NotifyNext ==
    \/ GenerateFromCurrentChanges
    \/ GenerateFromSpecificCommit
    \/ GenerateCommitMessage
    \/ WorklogResponds
    \/ CommitMessageResponds
    \/ SwitchCommand
    \/ NotificationAnswered
    \/ EarlierNotificationAnswered

SpecNotify == NotifyInit /\ [][NotifyNext]_vars

-----------------------------------------------------------------------------
(* WorklogPanel.formatWorklogContent (worklogPanel.ts) *)

DsuScript == <<"D", "S", "U", " ", "S", "C", "R", "I", "P", "T">>
ScriptColon == <<"S", "C", "R", "I", "P", "T", ":">>
IWorkedOn == <<"I", " ", "w", "o", "r", "k", "e", "d", " ", "o", "n">>
WorklogBullets == <<"W", "O", "R", "K", "L", "O", "G", " ", "B", "U", "L", "L", "E", "T", "S", ":">>
BoldWorklogBullets == <<"*", "*">> \o WorklogBullets \o <<"*", "*">>

\* String.prototype.includes
includes(s, w) == \E i \in 1..Len(s) : StartsWith(From(s, i), w)

\* the length of the match of /DSU SCRIPT|SCRIPT:/i at position i of s, or 0
MarkerLenAt(s, i) ==
    IF StartsWithCI(From(s, i), DsuScript) THEN Len(DsuScript)
    ELSE IF StartsWithCI(From(s, i), ScriptColon) THEN Len(ScriptColon)
    ELSE 0

\* the position of the first match at or after i, or 0
MarkerFrom(s, i) ==
    LET hits == {k \in i..Len(s) : MarkerLenAt(s, k) > 0}
    IN IF hits = {} THEN 0 ELSE Min(hits)

\* htmlContent.split(/DSU SCRIPT|SCRIPT:/i): sections[0] and sections[1]
firstSection(s) == SubSeq(s, 1, MarkerFrom(s, 1) - 1)
secondSection(s) ==
    LET m == MarkerFrom(s, 1)
        e == m + MarkerLenAt(s, m)
        n == MarkerFrom(s, e)
    IN IF n = 0 THEN From(s, e) ELSE SubSeq(s, e, n - 1)

\* s.replace(/w/g, '') for a literal w
RECURSIVE removeAll(_, _)
removeAll(s, w) ==
    IF s = <<>> THEN <<>>
    ELSE IF StartsWith(s, w) THEN removeAll(From(s, Len(w) + 1), w)
    ELSE <<Head(s)>> \o removeAll(Tail(s), w)

\* the worklog section without its labels, trimmed
cleanWorklogSection(sec) == Trim(removeAll(removeAll(sec, BoldWorklogBullets), WorklogBullets))

\* formatWorklogContent: the two sections it puts into its markup, or the
\* content returned as it is
formatWorklogContent(h) ==
    IF (includes(h, DsuScript) \/ includes(h, IWorkedOn)) /\ MarkerFrom(h, 1) > 0
    THEN [split |-> TRUE, worklogSection |-> cleanWorklogSection(firstSection(h)),
          dsuSection |-> secondSection(h)]
    ELSE [split |-> FALSE, worklogSection |-> h, dsuSection |-> <<>>]

\* the rendered replies: a label or none, the bullets, a marker or none, the
\* script, and a second marker with more text or none
FormatLabels == {<<>>, WorklogBullets \o <<"\n">>, BoldWorklogBullets \o <<"\n">>}
FormatBullets == {<<>>, <<"-", " ", "a", "\n">>}
FormatMarkers ==
    {<<>>, DsuScript, DsuScript \o <<":">>, LowerText(DsuScript), ScriptColon,
     <<"D", "s", "u", " ", "S", "c", "r", "i", "p", "t", ":">>}
FormatScripts == {<<>>, <<"\n">> \o IWorkedOn \o <<" ", "x">>, <<"\n", "i", " ", "d", "i", "d">>}
FormatTails == {<<>>, <<"\n">> \o ScriptColon \o <<"y">>}

FormatTexts ==
    {Concat(<<l, b, m, t, e>>) :
        l \in FormatLabels, b \in FormatBullets, m \in FormatMarkers,
        t \in FormatScripts, e \in FormatTails}

nonFormatVars == <<promptVars, commitVars, templateVars, genVars, overlapVars, modelVars, notifyVars, scmVars, configVars, panelVars>>
NonFormatIdle == PromptIdle /\ CommitIdle /\ TemplateIdle /\ GenIdle /\ OverlapIdle /\ ModelIdle /\ NotifyIdle /\ ScmIdle /\ ConfigIdle /\ PanelIdle

FormatInit ==
    /\ htmlContent \in FormatTexts
    /\ formatted = NoFormat
    /\ fpc = "ready"
    /\ NonFormatIdle

\* getHtmlForWebview calls formatWorklogContent on the rendered reply
FormatWorklogContent ==
    /\ fpc = "ready"
    /\ formatted' = formatWorklogContent(htmlContent)
    /\ fpc' = "formatted"
    /\ UNCHANGED htmlContent
    /\ UNCHANGED nonFormatVars

FormatNext == FormatWorklogContent

SpecFormat == FormatInit /\ [][FormatNext]_vars

-----------------------------------------------------------------------------
(* modelService.ts: fetchGeminiModels, fetchOpenAIModels and their cache.  *)
(* Each call runs up to its await; calls of several commands interleave.   *)

\* how many calls are made
MaxFetches == 2

\* what the filter, map and sort leave of the listing a backend returns
ModelLists == {<<>>, <<"m1">>, <<"m2", "m1">>}

\* the sublists of a list: the models for which isGeminiFree answered true
RECURSIVE SubLists(_)
SubLists(l) ==
    IF l = <<>> THEN {<<>>}
    ELSE LET rest == SubLists(Tail(l))
         IN rest \cup {<<Head(l)>> \o r : r \in rest}

\* getCachedModels: modelCache.get(key) || null; a list, even an empty one,
\* is truthy
getCachedModels(cache, provider, apiKey) == cache[getCacheKey(provider, apiKey)]

\* setCachedModels
setCachedModels(cache, provider, apiKey, models) ==
    [cache EXCEPT ![getCacheKey(provider, apiKey)] = Cached(models)]

\* the state of call number f after one more step
Step(f, st, models, result, network) ==
    [fetches EXCEPT ![f] = [@ EXCEPT !.state = st, !.models = models, !.result = result,
                                     !.network = network]]

\* the requests probing the listed models: one axios.post each, by isGeminiFree
RECURSIVE Probes(_, _)
Probes(apiKey, models) ==
    IF models = <<>> THEN <<>>
    ELSE <<[kind |-> "probe", provider |-> "gemini", apiKey |-> apiKey,
            model |-> Head(models)]>> \o Probes(apiKey, Tail(models))

nonModelVars == <<promptVars, commitVars, templateVars, genVars, overlapVars, formatVars, notifyVars, scmVars, configVars, panelVars>>
NonModelIdle == PromptIdle /\ CommitIdle /\ TemplateIdle /\ GenIdle /\ OverlapIdle /\ FormatIdle /\ NotifyIdle /\ ScmIdle /\ ConfigIdle /\ PanelIdle

ModelInit ==
    /\ modelCache = EmptyCache
    /\ fetches = <<>>
    /\ netLog = <<>>
    /\ NonModelIdle

\* fetchGeminiModels / fetchOpenAIModels up to the first await: the cached
\* list is returned, or the listing is requested
FetchModels ==
    /\ Len(fetches) < MaxFetches
    /\ \E p \in ListedProviders, k \in ApiKeys :
          LET cached == getCachedModels(modelCache, p, k)
              f == [provider |-> p, apiKey |-> k, state |-> "awaitList", models |-> <<>>,
                    result |-> <<>>, network |-> TRUE]
          IN IF cached.present
             THEN /\ fetches' = Append(fetches, [f EXCEPT !.state = "returned",
                                                          !.result = cached.models,
                                                          !.network = FALSE])
                  /\ netLog' = netLog
             ELSE /\ fetches' = Append(fetches, f)
                  /\ netLog' = Append(netLog, [kind |-> "list", provider |-> p,
                                               apiKey |-> k, model |-> ""])
    /\ UNCHANGED modelCache
    /\ UNCHANGED nonModelVars

\* fetchGeminiModels after axios.get: the request failed, or no compatible
\* model is left, or every compatible model is probed by isGeminiFree
GeminiListArrives ==
    /\ \E f \in 1..Len(fetches) :
          /\ fetches[f].state = "awaitList"
          /\ fetches[f].provider = "gemini"
          /\ \E failed \in BOOLEAN, models \in ModelLists :
                IF failed \/ models = <<>>
                THEN /\ fetches' = Step(f, "threw", <<>>, <<>>, TRUE)
                     /\ netLog' = netLog
                ELSE /\ fetches' = Step(f, "awaitProbes", models, <<>>, TRUE)
                     /\ netLog' = netLog \o Probes(fetches[f].apiKey, models)
    /\ UNCHANGED modelCache
    /\ UNCHANGED nonModelVars

\* fetchGeminiModels after Promise.all: isGeminiFree turns every failure of a
\* probe into true or false; the free models are cached and returned, or none
\* is free and the function throws
GeminiProbesArrive ==
    /\ \E f \in 1..Len(fetches) :
          /\ fetches[f].state = "awaitProbes"
          /\ \E free \in SubLists(fetches[f].models) :
                IF free = <<>>
                THEN /\ fetches' = Step(f, "threw", fetches[f].models, <<>>, TRUE)
                     /\ modelCache' = modelCache
                ELSE /\ fetches' = Step(f, "returned", fetches[f].models, free, TRUE)
                     /\ modelCache' = setCachedModels(modelCache, "gemini",
                                                      fetches[f].apiKey, free)
    /\ UNCHANGED netLog
    /\ UNCHANGED nonModelVars

\* fetchOpenAIModels after axios.get: the request failed, or the filtered
\* list, whatever its length, is cached and returned
OpenAIListArrives ==
    /\ \E f \in 1..Len(fetches) :
          /\ fetches[f].state = "awaitList"
          /\ fetches[f].provider = "openai"
          /\ \E failed \in BOOLEAN, models \in ModelLists :
                IF failed
                THEN /\ fetches' = Step(f, "threw", <<>>, <<>>, TRUE)
                     /\ modelCache' = modelCache
                ELSE /\ fetches' = Step(f, "returned", models, models, TRUE)
                     /\ modelCache' = setCachedModels(modelCache, "openai",
                                                      fetches[f].apiKey, models)
    /\ UNCHANGED netLog
    /\ UNCHANGED nonModelVars

ModelNext ==
    \/ FetchModels
    \/ GeminiListArrives
    \/ GeminiProbesArrive
    \/ OpenAIListArrives

SpecModels == ModelInit /\ [][ModelNext]_vars

-----------------------------------------------------------------------------
(* The panel's "include in commit" action (worklogPanel.ts) and the        *)
(* configuration-change handler of registerGitIntegration.  An update of   *)
(* a setting reaches the listeners before the promise of update() is       *)
(* fulfilled, so the handler runs before the code after the await.         *)

MaxIncludes == 2

\* the worklogs the panel may show, and what the input box may hold at first
PanelWorklogs == {<<"a">>, <<"a", "b">>, <<"c">>}
FirstMessages == {<<>>, <<"m">>}

Rule == <<"-", "-", "-", "\n">>

\* inputBox.value after the guarded append of worklog w
appended(box, w) ==
    IF includes(box, w) THEN box
    ELSE box \o (IF box # <<>> THEN <<"\n", "\n">> ELSE <<>>) \o Rule \o w

\* getConfig().update("includeWorklogInCommitMessage", value): the listeners
\* are told when the value changes
updated(value) == IF value # includeWorklog THEN Append(events, "includeWorklogInCommitMessage")
                  ELSE events

nonScmVars == <<promptVars, commitVars, templateVars, genVars, overlapVars, formatVars, modelVars, notifyVars, configVars, panelVars>>
NonScmIdle == PromptIdle /\ CommitIdle /\ TemplateIdle /\ GenIdle /\ OverlapIdle /\ FormatIdle /\ ModelIdle /\ NotifyIdle /\ ConfigIdle /\ PanelIdle

ScmInit ==
    /\ includeWorklog = FALSE
    /\ lastGeneratedWorklog = Undefined
    /\ inputBox \in FirstMessages
    /\ events = <<>>
    /\ incl = NoInclude
    /\ includeCount = 0
    /\ NonScmIdle

\* includeInCommitMessage(worklog) up to its await
IncludeInCommitMessage ==
    /\ incl.pc \in {"idle", "done"}
    /\ events = <<>>
    /\ includeCount < MaxIncludes
    /\ \E w \in PanelWorklogs : incl' = [pc |-> "updating", worklog |-> w]
    /\ includeWorklog' = TRUE
    /\ events' = updated(TRUE)
    /\ includeCount' = includeCount + 1
    /\ UNCHANGED <<lastGeneratedWorklog, inputBox>>
    /\ UNCHANGED nonScmVars

\* the onDidChangeConfiguration listener of registerGitIntegration
ConfigurationChanged ==
    /\ events # <<>>
    /\ IF includeWorklog /\ lastGeneratedWorklog # Undefined
       THEN /\ inputBox' = appended(inputBox, lastGeneratedWorklog)
            /\ includeWorklog' = FALSE
            /\ events' = Append(Tail(events), "includeWorklogInCommitMessage")
       ELSE /\ events' = Tail(events)
            /\ UNCHANGED <<inputBox, includeWorklog>>
    /\ UNCHANGED <<lastGeneratedWorklog, incl, includeCount>>
    /\ UNCHANGED nonScmVars

\* includeInCommitMessage after its await: worklog-ai.storeWorklog
StoreWorklog ==
    /\ incl.pc = "updating"
    /\ events = <<>>
    /\ lastGeneratedWorklog' = incl.worklog
    /\ incl' = [incl EXCEPT !.pc = "done"]
    /\ UNCHANGED <<includeWorklog, inputBox, events, includeCount>>
    /\ UNCHANGED nonScmVars

\* the user switches the setting in the settings editor
UserEditsSetting ==
    /\ events = <<>>
    /\ includeWorklog' = ~includeWorklog
    /\ events' = updated(~includeWorklog)
    /\ UNCHANGED <<lastGeneratedWorklog, inputBox, incl, includeCount>>
    /\ UNCHANGED nonScmVars

ScmNext ==
    \/ IncludeInCommitMessage
    \/ UserEditsSetting
    \/ ConfigurationChanged
    \/ StoreWorklog

SpecScm == ScmInit /\ [][ScmNext]_vars

-----------------------------------------------------------------------------
(* The commands that configure a provider, and the model the template      *)
(* clients put into their request.                                         *)

MaxFills == 2

KeySetting(p) == IF p = "gemini" THEN "geminiApiKey" ELSE "openaiApiKey"
ModelSetting(p) == IF p = "gemini" THEN "selectedGeminiModel" ELSE "selectedOpenAIModel"

\* ConfigService.getSelectedModel(provider); the local client reads
\* localLlmModelName, whose default is "phi"
getSelectedModel(c, p) == IF p = "local" THEN "phi" ELSE c[ModelSetting(p)]

\* what fetchGeminiModels / fetchOpenAIModels give the caller: a list, or an
\* error; fetchGeminiModels throws instead of returning an empty list
FetchOutcomes(p) ==
    {[threw |-> TRUE, models |-> <<>>]}
    \cup {[threw |-> FALSE, models |-> l] : l \in ModelLists \ (IF p = "gemini" THEN {<<>>} ELSE {})}

nonConfigVars == <<promptVars, commitVars, templateVars, genVars, overlapVars, formatVars, modelVars, notifyVars, scmVars, panelVars>>
NonConfigIdle == PromptIdle /\ CommitIdle /\ TemplateIdle /\ GenIdle /\ OverlapIdle /\ FormatIdle /\ ModelIdle /\ NotifyIdle /\ ScmIdle /\ PanelIdle

ConfigInit ==
    /\ config = DefaultConfig
    /\ fills = <<>>
    /\ NonConfigIdle

\* extension.ts, worklog-ai.generateWorklog: the key the wizard asks for when
\* the picked provider has none
WizardEntersKey ==
    /\ \E p \in ListedProviders :
          /\ config[KeySetting(p)] = ""
          /\ config' = [config EXCEPT ![KeySetting(p)] = "key"]
    /\ UNCHANGED fills
    /\ UNCHANGED nonConfigVars

\* WorklogTreeDataProvider.selectLlmProvider: the provider is stored, and a
\* missing key is asked for; the input box may be dismissed
SelectLlmProvider ==
    /\ \E p \in Providers, entered \in BOOLEAN :
          config' = IF p \in ListedProviders /\ config[KeySetting(p)] = "" /\ entered
                    THEN [config EXCEPT !.defaultLlmProvider = p, ![KeySetting(p)] = "key"]
                    ELSE [config EXCEPT !.defaultLlmProvider = p]
    /\ UNCHANGED fills
    /\ UNCHANGED nonConfigVars

\* worklog-ai.configureGeminiApiKey / configureOpenAiApiKey: the key is saved,
\* the models are fetched, and the first one is selected when there is one
ConfigureApiKey ==
    /\ \E p \in ListedProviders : \E o \in FetchOutcomes(p) :
          config' = IF ~o.threw /\ Len(o.models) > 0
                    THEN [config EXCEPT ![KeySetting(p)] = "key", ![ModelSetting(p)] = o.models[1]]
                    ELSE [config EXCEPT ![KeySetting(p)] = "key"]
    /\ UNCHANGED fills
    /\ UNCHANGED nonConfigVars

\* worklog-ai.selectGeminiModel / selectOpenAIModel: needs the key; the user
\* picks one of the listed models
SelectModel ==
    /\ \E p \in ListedProviders : \E o \in FetchOutcomes(p) :
          /\ config[KeySetting(p)] # ""
          /\ ~o.threw
          /\ \E k \in 1..Len(o.models) :
                config' = [config EXCEPT ![ModelSetting(p)] = o.models[k]]
    /\ UNCHANGED fills
    /\ UNCHANGED nonConfigVars

\* fillTemplateWithAI calls the template client of the default provider; the
\* PR commands get there after generateWorklog has found the key or the URL
FillTemplate ==
    /\ Len(fills) < MaxFills
    /\ LET p == config.defaultLlmProvider
       IN /\ p \in ListedProviders => config[KeySetting(p)] # ""
          /\ fills' = Append(fills, [provider |-> p, model |-> getSelectedModel(config, p)])
    /\ UNCHANGED config
    /\ UNCHANGED nonConfigVars

ConfigNext ==
    \/ WizardEntersKey
    \/ SelectLlmProvider
    \/ ConfigureApiKey
    \/ SelectModel
    \/ FillTemplate

SpecConfig == ConfigInit /\ [][ConfigNext]_vars

-----------------------------------------------------------------------------
(* The result panel's "Generate New" action (worklogPanel.ts) and the      *)
(* commands activate registers (extension.ts).                             *)

MaxClicks == 4

ContentTypes == {"worklog", "commit", "pr-template"}

\* the generation commands activate registers: whether the handler uses its
\* treeView argument, and the generation it starts
Registered ==
    [c \in {"worklog-ai.generateWorklog", "worklog-ai.generateCommitMessage",
            "worklog-ai.generatePRTemplate", "worklog-ai.generatePRFromCommits"} |->
        CASE c = "worklog-ai.generateWorklog" ->
                [needsTreeView |-> FALSE, starts |-> "generateWorklog"]
          [] c = "worklog-ai.generateCommitMessage" ->
                [needsTreeView |-> TRUE, starts |-> "generateCommitMessage"]
          [] c = "worklog-ai.generatePRTemplate" ->
                [needsTreeView |-> TRUE, starts |-> "generatePRTemplate"]
          [] OTHER ->
                [needsTreeView |-> TRUE, starts |-> "generatePRFromCommits"]]

\* the command the panel executes for its content type; it passes no argument
generateNewCommand(t) ==
    CASE t = "commit" -> "worklog-ai.generateCommitMessage"
      [] t = "pr-template" -> "worklog-ai.fillPRTemplate"
      [] OTHER -> "worklog-ai.generateWorklog"

\* vscode.commands.executeCommand(c) without arguments: the command is not
\* found, or the handler dereferences its undefined argument, or it runs
executeCommand(c) ==
    IF c \notin DOMAIN Registered THEN [outcome |-> "commandNotFound", starts |-> "nothing"]
    ELSE IF Registered[c].needsTreeView THEN [outcome |-> "TypeError", starts |-> "nothing"]
    ELSE [outcome |-> "ran", starts |-> Registered[c].starts]

nonPanelVars == <<promptVars, commitVars, templateVars, genVars, overlapVars, formatVars, modelVars, notifyVars, scmVars, configVars>>
NonPanelIdle == PromptIdle /\ CommitIdle /\ TemplateIdle /\ GenIdle /\ OverlapIdle /\ FormatIdle /\ ModelIdle /\ NotifyIdle /\ ScmIdle /\ ConfigIdle

PanelInit ==
    /\ contentType \in ContentTypes
    /\ dispatched = <<>>
    /\ NonPanelIdle

\* WorklogPanel.createOrShow on the open panel: update(worklog, contentType)
CreateOrShow ==
    /\ \E t \in ContentTypes : contentType' = t
    /\ UNCHANGED dispatched
    /\ UNCHANGED nonPanelVars

\* onDidReceiveMessage, case 'generateNew'
GenerateNew ==
    /\ Len(dispatched) < MaxClicks
    /\ LET c == generateNewCommand(contentType)
           r == executeCommand(c)
       IN dispatched' = Append(dispatched, [contentType |-> contentType, command |-> c,
                                            outcome |-> r.outcome, starts |-> r.starts])
    /\ UNCHANGED contentType
    /\ UNCHANGED nonPanelVars

PanelNext ==
    \/ CreateOrShow
    \/ GenerateNew

SpecPanel == PanelInit /\ [][PanelNext]_vars

-----------------------------------------------------------------------------
(* Claims *)

\* C1 (as stated): a change text over 10,000 characters is embedded as its first
\* 10,000 characters followed by "...[truncated]" and never as the full original
\* text; a text of at most 10,000 characters is embedded unchanged.
C1_AsStated ==
    ppc = "built" =>
        IF Len(changes) > MaxChanges
        THEN /\ prompt.payload = SubSeq(changes, 1, MaxChanges) \o TruncationMarker
             /\ prompt.payload # changes
        ELSE prompt.payload = changes

\* C1 (amended): a change text over 10,000 characters is embedded as its first
\* 10,000 characters followed by "...[truncated]"; the embedded text equals the
\* original exactly when the original's characters after the 10,000th are the
\* marker itself; a text of at most 10,000 characters is embedded unchanged.
C1_Truncation ==
    ppc = "built" =>
        IF Len(changes) > MaxChanges
        THEN /\ Len(prompt.payload) = MaxChanges + Len(TruncationMarker)
             /\ SubSeq(prompt.payload, 1, MaxChanges) = SubSeq(changes, 1, MaxChanges)
             /\ From(prompt.payload, MaxChanges + 1) = TruncationMarker
             /\ (prompt.payload = changes) <=> (From(changes, MaxChanges + 1) = TruncationMarker)
        ELSE prompt.payload = changes

\* a prompt was built from a text over the cap and the remainder was cut off
C1_Witness ==
    /\ ppc = "built"
    /\ Len(changes) > MaxChanges
    /\ prompt.payload # changes
    /\ From(prompt.payload, MaxChanges + 1) = TruncationMarker

\* C2 (as stated): the returned subject has at most 100 characters, and whenever
\* the raw first line of the reply has more than 100 characters the subject is
\* the first 97 characters of that line followed by "...".
C2_AsStated ==
    cpc = "parsed" =>
        /\ Len(commitResult.message) <= 100
        /\ Len(replyLines(response)[1]) > 100 =>
              commitResult.message = SubSeq(replyLines(response)[1], 1, 97) \o <<".", ".", ".">>

\* C2 (amended): the returned subject has at most 100 characters; the cut is
\* decided on the first line after its markdown and label decoration is removed:
\* when that stripped line has more than 100 characters the subject is its first
\* 97 characters followed by "...", trimmed; otherwise it is the stripped line,
\* trimmed.
C2_SubjectCap ==
    cpc = "parsed" =>
        LET stripped == strippedSubject(replyLines(response)[1])
        IN /\ Len(commitResult.message) <= 100
           /\ commitResult.message =
                 IF Len(stripped) > 100
                 THEN Trim(SubSeq(stripped, 1, 97) \o <<".", ".", ".">>)
                 ELSE Trim(stripped)

\* a reply whose decorated first line was cut after the decoration was removed
C2_Witness ==
    /\ cpc = "parsed"
    /\ Len(strippedSubject(replyLines(response)[1])) > 100
    /\ Len(replyLines(response)[1]) > Len(strippedSubject(replyLines(response)[1]))
    /\ Len(commitResult.message) = 100
    /\ commitResult.message # SubSeq(replyLines(response)[1], 1, 97) \o <<".", ".", ".">>

\* the characters of s other than white space, in order
Ink(s) == SelectSeq(s, LAMBDA c : ~IsSpace(c))

\* the states of the checkbox marks "[x]" and "[ ]" of s, in order
RECURSIVE MarksFrom(_, _)
MarksFrom(s, i) ==
    IF i > Len(s) THEN <<>>
    ELSE IF MarkAt(s, i) THEN <<s[i + 1]>> \o MarksFrom(s, i + 1)
    ELSE MarksFrom(s, i + 1)

Marks(s) == MarksFrom(s, 1)

\* whether the filler has returned
FillerReturned == tpc \in {"cleaned", "fellBack"}

OpeningFences == {<<>>, Fence, LowerText(FenceMarkdown), LowerText(FenceMarkdown) \o Fence}
ClosingFences == {<<>>, Fence}

KeywordSignals ==
    {<<"f", "i", "x">>, <<"b", "u", "g">>, <<"f", "e", "a", "t">>, <<"a", "d", "d">>,
     <<"n", "e", "w">>, <<"b", "r", "e", "a", "k">>, <<"m", "a", "j", "o", "r">>}

\* whether the text s holds the word w
Contains(s, w) == \E i \in 1..Len(s) : StartsWith(From(s, i), w)

\* a keyword signal occurs in the content or in the commit messages
SignalOccurs ==
    \E w \in KeywordSignals :
       \/ Contains(LowerText(WorklogContent), w)
       \/ \E k \in 1..Len(commitMessages.list) : Contains(LowerText(commitMessages.list[k]), w)

C7_Idempotent ==
    tpc = "cleaned" => cleanupTemplate(filled) = filled

\* C3: whenever the required key or base URL of the provider is empty, every
\* provider call path fails with an error naming the missing setting and issues
\* no HTTP request: no request carries an empty credential, and a call that ends
\* in a configuration error names the setting of its provider and has posted
\* nothing.
C3_AsStated ==
    /\ \A i \in 1..Len(httpLog) : httpLog[i].credential # ""
    /\ lastError.kind = "notConfigured" =>
          /\ lastError.cause = RequiredSetting(call.provider)
          /\ httpLog = <<>>

\* C4: in every generation entry point, when the change text obtained from the
\* diff source is empty or white space only, no provider request is issued and
\* the operation ends signalling that there are no changes.
C4_AsStated ==
    (entry # "none" /\ emptySource) =>
        /\ httpLog = <<>>
        /\ gpc = "done" => (signal = "noChanges" \/ lastError = NoChangesDetected)

\* the requests posted by generateWorklog and generateCommitMessage
GeneratorRequests ==
    SelectSeq(httpLog, LAMBDA q : q.by \in {"generateWorklog", "generateCommitMessage"})

\* the answers that carry the finish reason of an output-length cutoff
CutoffReplies ==
    {i \in 1..Len(replies) :
        /\ replies[i].response.kind = "ok"
        /\ replies[i].response.candidates > 0
        /\ replies[i].response.finish = CutoffReason(replies[i].provider)}

\* the answers that are a success envelope without candidates
EmptyReplies ==
    {i \in 1..Len(replies) :
        replies[i].response.kind = "ok" /\ replies[i].response.candidates = 0}

\* C8: when a reply carries the finish reason of an output-length cutoff, the
\* client (worklog, commit message and PR template alike) returns the partial
\* text as a success and a truncation warning is logged.
C8_AsStated ==
    CutoffReplies # {} =>
        /\ lastError = NoError
        /\ \E k \in 1..Len(warnLog) : warnLog[k] = "truncated due to token limit"

\* C9: when a provider answers successfully with zero candidates, the call
\* fails with an error of a kind other than that of a network failure, and the
\* error reaches the caller.
C9_AsStated ==
    (EmptyReplies # {} /\ gpc = "done") =>
        /\ lastError # NoError
        /\ lastError.kind # CallFailed(lastError.provider, "network").kind

\* the answer the client handled last was a failure
ReplyFailed(a) ==
    IF a.by = "fillTemplateWithAI"
    THEN ~templateClientOutcome(a.provider, a.response).ok
    ELSE ~clientOutcome(a.provider, a.response).ok

\* a tree-view command returns in this step, after a provider request of it failed
TreeCommandFails ==
    /\ entry \in TreeCommands
    /\ gpc \in AwaitStates
    /\ gpc' = "done"
    /\ Len(replies') = Len(replies) + 1
    /\ ReplyFailed(replies'[Len(replies')])

\* C12: when the provider request of a tree-view generation command fails,
\* generatedWorklog, the stored lastGeneratedWorklog and the content of the
\* result panel keep the values they had, and isGenerating is false when the
\* command returns.
C12_AsStated ==
    [][TreeCommandFails =>
          /\ UNCHANGED <<generatedWorklog, workspaceState, panel>>
          /\ ~isGenerating']_vars

\* C13: whenever a provider request made for worklog generation, for
\* commit-message generation or for PR-template filling fails, the invoking
\* command ends by surfacing an error (a message to the user, or for the
\* commit hook a console error) and never reports success.
C13_AsStated ==
    (gpc = "done" /\ replies # <<>> /\ ReplyFailed(replies[Len(replies)]))
        => (signal \in {"error", "consoleError"} /\ lastError # NoError)

\* C14: the error of a failed provider request has a kind determined by the
\* HTTP status: the kind of the error the command caught differs from the kind
\* the client gives to each of the other error statuses and from the kind of
\* the network error, and its message suggests a corrective action.
C14_AsStated ==
    (/\ gpc = "done"
     /\ replies # <<>>
     /\ replies[Len(replies)].by # "fillTemplateWithAI"
     /\ replies[Len(replies)].response.kind = "status")
        => LET a == replies[Len(replies)]
           IN /\ \A st \in ErrorStatuses \ {a.response.status} :
                    clientOutcome(a.provider, StatusResponse(st)).error.kind
                        # lastError.kind
              /\ lastError.kind # CallFailed(a.provider, "network").kind
              /\ lastError.advice # "none"

\* C15: for every reply a provider client hands back as a successful result,
\* however malformed, the response parsing of generateCommitMessage completes
\* with a result and never throws.
C15_AsStated == cpc # "threw"

\* a markdown header line: one to six "#" and a space
MarkdownHeader(l) ==
    \E n \in 1..6 : /\ Len(l) > n
                    /\ \A i \in 1..n : l[i] = "#"
                    /\ l[n + 1] = " "

\* a markdown rule or separator line: three or more of one of - = * _
RuleLine(l) ==
    /\ Len(l) >= 3
    /\ l[1] \in {"-", "=", "*", "_"}
    /\ \A i \in 1..Len(l) : l[i] = l[1]

\* a line that is only a label or a markdown marker: blank, a rule, a header,
\* or nothing but decoration and a subject label
BareLine(l) ==
    LET t == Trim(l)
    IN t = <<>> \/ RuleLine(t) \/ MarkdownHeader(t) \/ Trim(strippedSubject(t)) = <<>>

\* C27 (as stated): whenever the provider reply contains at least one line of
\* text that is not a bare label or markdown marker, generateCommitMessage
\* returns a non-empty subject; a first line that is only a label, with the
\* subject on a following line, does not leave the message empty.
C27_AsStated ==
    (cpc = "parsed" /\ \E i \in 1..Len(replyLines(response)) :
                          ~BareLine(replyLines(response)[i]))
        => commitResult.message # <<>>

\* the lines after the subject line that are neither headers nor rules, in
\* order, each without its bullet marker
BodyLines(lines) ==
    LET kept == SelectSeq(Tail(lines), LAMBDA l : ~MarkdownHeader(l) /\ ~RuleLine(l))
    IN [i \in 1..Len(kept) |-> stripBullet(kept[i])]

\* C16: the description consists of exactly the reply lines that follow the
\* subject line, in order, without the markdown header lines and the rule
\* lines, each with its leading bullet marker removed (white space around the
\* whole is not counted); no header or rule line appears in the description.
C16_AsStated ==
    cpc = "parsed" =>
        /\ commitResult.description = Trim(JoinLines(BodyLines(replyLines(response))))
        /\ \A k \in 1..Len(SplitLines(commitResult.description)) :
              LET l == SplitLines(commitResult.description)[k]
              IN ~MarkdownHeader(l) /\ ~RuleLine(l)

\* the stand-up-script marker occurs in s, in any letter case
MarkerOccurs(s) == MarkerFrom(s, 1) > 0

\* C17: when the reply contains the stand-up-script marker in any letter case,
\* formatWorklogContent splits the reply there into the bullet section and the
\* stand-up-script section; when it contains no marker, the whole reply is
\* returned as the bullet section with an empty stand-up-script part.
C17_AsStated ==
    fpc = "formatted" =>
        IF MarkerOccurs(htmlContent)
        THEN /\ formatted.split
             /\ formatted.worklogSection = cleanWorklogSection(firstSection(htmlContent))
             /\ formatted.dsuSection = secondSection(htmlContent)
        ELSE /\ ~formatted.split
             /\ formatted.worklogSection = htmlContent
             /\ formatted.dsuSection = <<>>

\* a call starts in this step for a key that is in the cache
HitStep ==
    /\ Len(fetches') = Len(fetches) + 1
    /\ getCachedModels(modelCache, fetches'[Len(fetches')].provider,
                       fetches'[Len(fetches')].apiKey).present

\* C18: the model-listing cache only grows: an entry once written is never
\* removed or emptied, and a later call for its key returns the cached list
\* without a network request; concurrent calls that both miss leave a
\* written, non-empty list in the cache.
C18_AsStated ==
    [][/\ \A k \in CacheKeys :
            modelCache[k].present =>
               /\ modelCache'[k].present
               /\ modelCache[k].models # <<>> => modelCache'[k].models # <<>>
       /\ HitStep =>
            /\ netLog' = netLog
            /\ fetches'[Len(fetches')].state = "returned"
            /\ fetches'[Len(fetches')].result =
                  getCachedModels(modelCache, fetches'[Len(fetches')].provider,
                                  fetches'[Len(fetches')].apiKey).models]_vars

RECURSIVE GapsFrom(_, _, _)
GapsFrom(s, i, last) ==
    IF i > Len(s) THEN <<>>
    ELSE IF IsSpace(s[i]) THEN GapsFrom(s, i + 1, last)
    ELSE (IF last = 0 THEN <<>> ELSE <<SubSeq(s, last + 1, i - 1)>>) \o GapsFrom(s, i + 1, i)

Gaps(s) == GapsFrom(s, 1, 0)

\* g is a run of n or more newlines and nothing else
NewlineRun(g, n) == Len(g) >= n /\ \A i \in 1..Len(g) : g[i] = "\n"

\* a text of n newlines
Newlines(n) == [i \in 1..n |-> "\n"]

\* s holds n newlines in a row
HasNewlineRun(s, n) == \E i \in 1..Len(s) : \A d \in 0..(n - 1) : i + d <= Len(s) /\ s[i + d] = "\n"

ExpectedGeneration(t) ==
    CASE t = "commit" -> {"generateCommitMessage"}
      [] t = "pr-template" -> {"generatePRTemplate", "generatePRFromCommits"}
      [] OTHER -> {"generateWorklog"}

\* C29 (as stated): for each content type of the result panel, "Generate New"
\* executes a registered command with the arguments its handler needs, so that
\* the matching generation starts: commit-message generation for commit,
\* PR-template filling for pr-template, worklog generation for worklog.
C29_AsStated ==
    \A n \in 1..Len(dispatched) :
       /\ dispatched[n].outcome = "ran"
       /\ dispatched[n].starts \in ExpectedGeneration(dispatched[n].contentType)

\* every section of htmlContent.split(/DSU SCRIPT|SCRIPT:/i), in order
RECURSIVE sections(_)
sections(s) ==
    LET m == MarkerFrom(s, 1)
    IN IF m = 0 THEN <<s>>
       ELSE <<SubSeq(s, 1, m - 1)>> \o sections(From(s, m + MarkerLenAt(s, m)))

\* C28 (as stated): formatWorklogContent never drops reply content: whenever it
\* splits the reply, every part of the reply other than the markers and the
\* removed "WORKLOG BULLETS:" labels appears in the bullet section or in the
\* stand-up-script section, also when the marker occurs more than once.
C28_AsStated ==
    (fpc = "formatted" /\ formatted.split) =>
        LET secs == sections(htmlContent)
        IN /\ formatted.worklogSection = cleanWorklogSection(secs[1])
           /\ formatted.dsuSection = secs[2]
           /\ \A k \in 3..Len(secs) :
                 \/ Trim(secs[k]) = <<>>
                 \/ includes(formatted.worklogSection, Trim(secs[k]))
                 \/ includes(formatted.dsuSection, Trim(secs[k]))

\* C26 (as stated): every PR-template fill request sent to Gemini or OpenAI
\* names a non-empty model identifier, for every sequence of configuration
\* operations that leaves an API key configured.
C26_AsStated ==
    \A n \in 1..Len(fills) :
       fills[n].provider \in ListedProviders => fills[n].model # ""

\* C25 (as stated): a model list returned for API key k was fetched from the
\* provider with k itself: of two different API keys of the same provider, a
\* list cached for one is never returned for the other.
C25_AsStated ==
    \A f \in 1..Len(fetches) :
       fetches[f].state = "returned" =>
          \E n \in 1..Len(netLog) :
             /\ netLog[n].kind = "list"
             /\ netLog[n].provider = fetches[f].provider
             /\ netLog[n].apiKey = fetches[f].apiKey

\* C24 (as stated): after the panel's "include in commit" action for worklog w
\* the text appended to the SCM input box is w, never an earlier stored worklog
\* or nothing, and the setting includeWorklogInCommitMessage is false again.
C24_AsStated ==
    (incl.pc = "done" /\ events = <<>>) =>
        /\ EndsWith(inputBox, Rule \o incl.worklog)
        /\ ~includeWorklog

\* a request posted by a tree-view command is outstanding
TreeRequestOutstanding ==
    \/ gpc \in AwaitStates /\ entry \in TreeCommands
    \/ other.gpc \in AwaitStates /\ other.entry \in TreeCommands

\* C22 (as stated): isGenerating is true at every moment at which a provider
\* request started by a tree-view generation command is outstanding; no code
\* path of another command invocation, the late error handling of an earlier
\* command included, sets the flag to false before that request completes.
C22_AsStated == TreeRequestOutstanding => isGenerating

\* C23 (as stated): the text copied or exported by the button of a success
\* notification is the text produced by the command invocation that showed the
\* notification, for every interleaving of other generation commands that start
\* and finish while the notification is pending.
C23_AsStated ==
    [][/\ (NotificationAnswered /\ deliveries' # deliveries) =>
             deliveries'[Len(deliveries')].text = generated
       /\ (EarlierNotificationAnswered /\ deliveries' # deliveries) =>
             deliveries'[Len(deliveries')].text = other.generated]_vars

\* C21: for every change text, the style requirements of the prompt built for
\* style "business" hold the instruction not to include file or function names
\* and do not hold the instruction to include them, and those of the prompt built
\* for style "technical" hold the instruction to include file and function names;
\* this holds for createPrompt and for createWorklogPrompt alike.
C21_StyleInstruction ==
    (ppc = "built" /\ builder \in {"createPrompt", "createWorklogPrompt"}) =>
        /\ worklogStyle = "business" =>
              (prompt.style = OmitNames /\ prompt.style # IncludeNames)
        /\ worklogStyle = "technical" => prompt.style = IncludeNames

\* a business prompt was built by the current builder from a non-empty change text
C21_Witness ==
    /\ ppc = "built"
    /\ builder = "createWorklogPrompt"
    /\ worklogStyle = "business"
    /\ changes # <<>>
    /\ prompt.style = OmitNames
    /\ prompt.payload = changes

\* C11: at most one generation request is in flight at any time: while one
\* generation command waits for its provider call, no other generation
\* command waits for one as well.
C11_AsStated == ~(gpc \in AwaitStates /\ other.gpc \in AwaitStates)

\* C10: every call of generateWorklog or generateCommitMessage that passes the
\* configuration validation issues exactly one HTTP request, to the backend of
\* the provider it was called with, and never a second one, also after the
\* request failed; a call that fails the validation issues none.
C10_OneRequest ==
    IF call = NoCall \/ lastError.kind = "notConfigured"
    THEN GeneratorRequests = <<>>
    ELSE /\ Len(GeneratorRequests) = 1
         /\ GeneratorRequests[1].by = call.generator
         /\ GeneratorRequests[1].to = BackendOf(call.provider)
         /\ GeneratorRequests[1].provider = call.provider

\* a generator call whose one request failed at the transport level has ended
\* with that error
C10_Witness ==
    /\ gpc = "done"
    /\ call # NoCall
    /\ lastError.kind = "callFailed"
    /\ lastError.cause = "network"
    /\ Len(replies) = 1
    /\ Len(GeneratorRequests) = 1
====
